---- MODULE Spec2Model ----
(***************************************************************************)
(* A2E test harness: the TestReporter (utils/reporter), the suite runner   *)
(* (runners/full-suite.js) and the HUNTER workflow validator               *)
(* (validators/hunter-validator.js).                                       *)
(*                                                                         *)
(* Three specifications share the module's variables:                      *)
(*   SpecReporter  a TestReporter receiving pass/fail/warn/skip calls      *)
(*   SpecSuite     runFullSuite and the require.main entry point           *)
(*   SpecHunter    validateHunterWorkflow on a bounded workflow document   *)
(* Each leaves the variables of the other two at their initial value.      *)
(*                                                                         *)
(* Numbers that JavaScript prints with toFixed(1) are kept in tenths (a    *)
(* pass rate of 66.7 is the integer 667); a JavaScript number is a record  *)
(* [kind, tenths] so that NaN is a value of its own.                       *)
(***************************************************************************)
EXTENDS Integers, Sequences, FiniteSets, TLC

VARIABLES
    results,            \* TestReporter.results: the recorded check results
    calls,              \* history: number of pass/fail/warn/skip calls made
    summary,            \* the value last returned by getSummary
    args,               \* process.argv.slice(2), as a set of flags
    pc,                 \* position of runFullSuite / the entry point
    allResults,         \* runFullSuite: allResults
    crashed,            \* history: the validators that threw
    totals,             \* runFullSuite: totals
    overallPassRate,    \* runFullSuite: parseFloat(overallPassRate)
    exitStatus,         \* the status handed to process.exit
    nodes,              \* workflow.nodes
    connections,        \* workflow.connections
    hpc,                \* position of validateHunterWorkflow
    connectedNodeNames, \* validateHunterWorkflow: connectedNodeNames
    orphanNodes,        \* validateHunterWorkflow: orphanNodes
    dupes,              \* validateHunterWorkflow: dupes
    tier,               \* runFullSuite: the readiness line printed
    content,            \* what the remote store returns to a validator's fetches
    now,                \* Date.now() of a validateRepos run, in days
    vpc,                \* position of validateRepos / validateProtocols / validateHunterCode
    fetches,            \* the fetches a validator run has made, with their outcomes
    earlier             \* the summary and the time of an earlier run against the same content

reporterVars == <<results, calls, summary>>
suiteVars == <<args, pc, allResults, crashed, totals, overallPassRate, exitStatus, tier>>
hunterVars == <<nodes, connections, hpc, connectedNodeNames, orphanNodes, dupes>>
docVars == <<content, now, vpc, fetches, earlier>>
vars == <<reporterVars, suiteVars, hunterVars, docVars>>

(***************************************************************************)
(* Bounds                                                                  *)
(***************************************************************************)
\* longest sequence of reporter calls in SpecReporter
MaxResults == 5
\* most checks one validator records in SpecSuite
MaxChecks == 2
\* most nodes of a workflow in SpecHunter
MaxNodes == 3

(***************************************************************************)
(* JavaScript numbers                                                      *)
(***************************************************************************)
Num(t) == [kind |-> "num", tenths |-> t]
NaN == [kind |-> "NaN", tenths |-> 0]
Infinity == [kind |-> "Infinity", tenths |-> 0]

\* parseFloat(((num / den) * 100).toFixed(1)) for integers num >= 0, den >= 0:
\* 0/0 is NaN, n/0 is Infinity, and toFixed(1) rounds to the nearest tenth,
\* the larger one on a tie.
PercentFixed1(num, den) ==
    IF den = 0
    THEN (IF num = 0 THEN NaN ELSE Infinity)
    ELSE Num((2000 * num + den) \div (2 * den))

(***************************************************************************)
(* TestReporter                                                            *)
(***************************************************************************)
Statuses == {"PASS", "FAIL", "WARN", "SKIP"}

\* a test name: a label and the name interpolated into it (<<>> when none)
Test(label, name) == <<label, name>>
NoName == <<>>

Result(status, test) == [status |-> status, test |-> test]

reporter_pass(rs, test) == Append(rs, Result("PASS", test))
reporter_fail(rs, test) == Append(rs, Result("FAIL", test))
reporter_warn(rs, test) == Append(rs, Result("WARN", test))
reporter_skip(rs, test) == Append(rs, Result("SKIP", test))

\* this.results.filter(r => r.status === s).length
CountStatus(rs, s) == Cardinality({i \in DOMAIN rs : rs[i].status = s})

getSummary_TotalDropsSkips(suite, rs) ==
    LET pass == CountStatus(rs, "PASS")
        fail == CountStatus(rs, "FAIL")
        warn == CountStatus(rs, "WARN")
        skip == CountStatus(rs, "SKIP")
        total == Len(rs) - skip
    IN  [suite |-> suite, total |-> total, pass |-> pass, fail |-> fail,
         warn |-> warn, skip |-> skip,
         passRate |-> IF total > 0 THEN PercentFixed1(pass, total - skip) ELSE Num(0),
         results |-> rs]

getSummary(suite, rs) ==
    LET pass == CountStatus(rs, "PASS")
        fail == CountStatus(rs, "FAIL")
        warn == CountStatus(rs, "WARN")
        skip == CountStatus(rs, "SKIP")
        total == Len(rs)
    IN  [suite |-> suite, total |-> total, pass |-> pass, fail |-> fail,
         warn |-> warn, skip |-> skip,
         passRate |-> IF total > 0 THEN PercentFixed1(pass, total - skip) ELSE Num(0),
         results |-> rs]

NoSummary == [suite |-> "none"]

ReporterSuite == "REPORTER"
ReporterTest == Test("check", NoName)

ReporterPass ==
    /\ Len(results) < MaxResults
    /\ results' = reporter_pass(results, ReporterTest)
    /\ calls' = calls + 1
    /\ UNCHANGED <<summary, suiteVars, hunterVars, docVars>>

ReporterFail ==
    /\ Len(results) < MaxResults
    /\ results' = reporter_fail(results, ReporterTest)
    /\ calls' = calls + 1
    /\ UNCHANGED <<summary, suiteVars, hunterVars, docVars>>

ReporterWarn ==
    /\ Len(results) < MaxResults
    /\ results' = reporter_warn(results, ReporterTest)
    /\ calls' = calls + 1
    /\ UNCHANGED <<summary, suiteVars, hunterVars, docVars>>

ReporterSkip ==
    /\ Len(results) < MaxResults
    /\ results' = reporter_skip(results, ReporterTest)
    /\ calls' = calls + 1
    /\ UNCHANGED <<summary, suiteVars, hunterVars, docVars>>

ReporterGetSummary ==
    /\ summary' = getSummary(ReporterSuite, results)
    /\ summary' # summary
    /\ UNCHANGED <<results, calls, suiteVars, hunterVars, docVars>>

ReporterInit ==
    /\ results = <<>>
    /\ calls = 0
    /\ summary = NoSummary

SuiteIdle ==
    /\ args = {}
    /\ pc = "idle"
    /\ allResults = <<>>
    /\ crashed = {}
    /\ totals = [pass |-> 0, fail |-> 0, warn |-> 0, skip |-> 0, total |-> 0]
    /\ overallPassRate = Num(0)
    /\ exitStatus = 0
    /\ tier = "none"

HunterIdle ==
    /\ nodes = <<>>
    /\ connections = <<>>
    /\ hpc = "idle"
    /\ connectedNodeNames = {}
    /\ orphanNodes = <<>>
    /\ dupes = <<>>

DocsIdle ==
    /\ content = [kind |-> "none"]
    /\ now = 0
    /\ vpc = <<"idle", 0>>
    /\ fetches = <<>>
    /\ earlier = NoSummary

InitReporter == ReporterInit /\ SuiteIdle /\ HunterIdle /\ DocsIdle

NextReporter ==
    \/ ReporterPass
    \/ ReporterFail
    \/ ReporterWarn
    \/ ReporterSkip
    \/ ReporterGetSummary

SpecReporter == InitReporter /\ [][NextReporter]_vars

(***************************************************************************)
(* Claims about the TestReporter (SpecReporter)                            *)
(***************************************************************************)

\* C1: for every sequence of pass/fail/warn/skip calls, the summary that
\* getSummary returns has pass + fail + warn + skip = total, and total is the
\* number of calls made; the summary last returned had that property too.
C1_CountsAddUp ==
    LET s == getSummary(ReporterSuite, results)
    IN  /\ s.pass + s.fail + s.warn + s.skip = s.total
        /\ s.total = calls
        /\ summary # NoSummary =>
               summary.pass + summary.fail + summary.warn + summary.skip = summary.total

\* C1 witness: a summary was returned after calls of all four kinds.
C1_Witness ==
    /\ summary # NoSummary
    /\ summary.pass > 0 /\ summary.fail > 0 /\ summary.warn > 0 /\ summary.skip > 0
    /\ summary.total = calls

InRange(rate) == rate.kind = "num" /\ rate.tenths >= 0 /\ rate.tenths <= 1000

\* C2 (as claimed): the passRate of getSummary is a number in [0, 100] and is 0
\* whenever total - skip = 0, also for a non-empty sequence of SKIP results only.
C2_PassRateInRange ==
    LET s == getSummary(ReporterSuite, results)
    IN  /\ InRange(s.passRate)
        /\ (s.total - s.skip = 0 => s.passRate = Num(0))


(***************************************************************************)
(* runFullSuite and the entry point of full-suite.js                       *)
(***************************************************************************)
RecognisedFlags == {"--hunter", "--protocol", "--repo", "--code"}

\* the argument lists the model starts from: every set of recognised flags,
\* and an unrecognised flag alone or beside a recognised one
ArgSets == (SUBSET RecognisedFlags) \cup {{"--verbose"}, {"--verbose", "--repo"}}

runAll_OnNoRecognisedFlag == args \cap RecognisedFlags = {}

\* const runAll = args.length === 0
runAll == args = {}
runHunter == runAll \/ "--hunter" \in args
runProtocol == runAll \/ "--protocol" \in args
runRepo == runAll \/ "--repo" \in args
runCode == runAll \/ "--code" \in args

\* the validators in the order runFullSuite calls them
Validators == <<"repo", "protocol", "hunter", "code">>

Selected(v) ==
    CASE v = "repo" -> runRepo
      [] v = "protocol" -> runProtocol
      [] v = "hunter" -> runHunter
      [] v = "code" -> runCode

\* the suite name each validator gives its TestReporter
ReporterName(v) ==
    CASE v = "repo" -> "REPOSITORY HEALTH VALIDATOR"
      [] v = "protocol" -> "PROTOCOL VALIDATOR"
      [] v = "hunter" -> "HUNTER WORKFLOW VALIDATOR"
      [] v = "code" -> "H30-H35 CODE VALIDATOR"

\* the suite name of the summary pushed in the catch block
CrashName(v) ==
    CASE v = "repo" -> "REPO"
      [] v = "protocol" -> "PROTOCOL"
      [] v = "hunter" -> "HUNTER"
      [] v = "code" -> "CODE"

\* the summary pushed when a validator throws; it has no skip field
CrashSummary(v) ==
    [suite |-> CrashName(v), pass |-> 0, fail |-> 1, warn |-> 0, total |-> 1,
     passRate |-> Num(0)]

\* What a validator can record: every validator records at least one result
\* before it returns, and none of them calls reporter.skip.
ValidatorStatuses == {"PASS", "FAIL", "WARN"}

CheckSeqs ==
    UNION {[1..n -> {Result(st, ReporterTest) : st \in ValidatorStatuses}] : n \in 1..MaxChecks}

\* the fields of a summary that runFullSuite reads
RunnerFields == {"suite", "total", "pass", "fail", "warn", "skip", "passRate"}

RunnerView(s) == [f \in RunnerFields |-> s[f]]

\* the values "return reporter.printReport()" can hand to runFullSuite
ValidatorSummaries(v) == {RunnerView(getSummary(ReporterName(v), rs)) : rs \in CheckSeqs}

\* s + (r.skip || 0)
SkipOrZero(r) == IF "skip" \in DOMAIN r THEN r.skip ELSE 0

FieldOf(r, f) == IF f = "skip" THEN SkipOrZero(r) ELSE r[f]

\* allResults.reduce((s, r) => s + r.<f>, 0)
RECURSIVE Reduce(_, _)
Reduce(rs, f) ==
    IF rs = <<>> THEN 0
    ELSE Reduce(SubSeq(rs, 1, Len(rs) - 1), f) + FieldOf(rs[Len(rs)], f)

ComputeTotals_TotalOmitsWarn(rs) ==
    [pass |-> Reduce(rs, "pass"), fail |-> Reduce(rs, "fail"),
     warn |-> Reduce(rs, "warn"), skip |-> Reduce(rs, "skip"),
     total |-> Reduce(rs, "pass") + Reduce(rs, "fail")]

ComputeTotals(rs) ==
    [pass |-> Reduce(rs, "pass"), fail |-> Reduce(rs, "fail"),
     warn |-> Reduce(rs, "warn"), skip |-> Reduce(rs, "skip"),
     total |-> Reduce(rs, "total")]

ComputeOverallPassRate_OverTotalMinusWarn(t) ==
    IF t.total - t.warn > 0 THEN PercentFixed1(t.pass, t.total - t.warn) ELSE Num(0)

\* activeTests > 0 ? ((totals.pass / activeTests) * 100).toFixed(1) : 0, parsed
ComputeOverallPassRate(t) ==
    LET activeTests == t.total - t.skip
    IN  IF activeTests > 0 THEN PercentFixed1(t.pass, activeTests) ELSE Num(0)

\* the thresholds of lines 106-110, in percent
PrdThreshold == 95
TstThreshold == 80
DevThreshold == 50

AtLeast(rate, percent) == rate.kind = "num" /\ rate.tenths >= 10 * percent

\* lines 106-114: the readiness line chosen from parseFloat(overallPassRate)
Tier(rate) ==
    IF AtLeast(rate, PrdThreshold) THEN "PRODUCTION READY"
    ELSE IF AtLeast(rate, TstThreshold) THEN "TEST ENVIRONMENT PASS"
    ELSE IF AtLeast(rate, DevThreshold) THEN "DEVELOPMENT ONLY"
    ELSE "CRITICAL"

ExitStatusOf_OnFailOrWarn(t) == IF t.fail + t.warn > 0 THEN 1 ELSE 0

ExitStatusOf_FromPassRate(t) == IF overallPassRate.tenths < 500 THEN 1 ELSE 0

\* process.exit(result.totals.fail > 0 ? 1 : 0)
ExitStatusOf(t) == IF t.fail > 0 THEN 1 ELSE 0

NextStage(v) ==
    CASE v = "repo" -> "protocol"
      [] v = "protocol" -> "hunter"
      [] v = "hunter" -> "code"
      [] v = "code" -> "aggregate"

SuiteStart ==
    /\ pc = "start"
    /\ pc' = "repo"
    /\ allResults' = <<>>
    /\ UNCHANGED <<args, crashed, totals, overallPassRate, exitStatus, tier, reporterVars, hunterVars, docVars>>

\* if (!run<V>): the block is passed over
ValidatorNotSelected(v) ==
    /\ ~Selected(v)
    /\ pc' = NextStage(v)
    /\ UNCHANGED <<allResults, crashed>>

\* try { allResults.push(await validate<V>()) }
ValidatorReturned(v) ==
    /\ Selected(v)
    /\ \E s \in ValidatorSummaries(v) : allResults' = Append(allResults, s)
    /\ pc' = NextStage(v)
    /\ UNCHANGED crashed

ValidatorThrew_Uncaught(v) ==
    /\ Selected(v)
    /\ pc' = "rejected"
    /\ crashed' = crashed \cup {v}
    /\ UNCHANGED allResults

\* catch (e) { allResults.push({ suite, pass: 0, fail: 1, warn: 0, total: 1, passRate: 0 }) }
ValidatorThrew(v) ==
    /\ Selected(v)
    /\ allResults' = Append(allResults, CrashSummary(v))
    /\ pc' = NextStage(v)
    /\ crashed' = crashed \cup {v}

RunValidator(v) ==
    /\ pc = v
    /\ \/ ValidatorNotSelected(v)
       \/ ValidatorReturned(v)
       \/ ValidatorThrew(v)
    /\ UNCHANGED <<args, totals, overallPassRate, exitStatus, tier, reporterVars, hunterVars, docVars>>

RunRepo == RunValidator("repo")
RunProtocol == RunValidator("protocol")
RunHunter == RunValidator("hunter")
RunCode == RunValidator("code")

\* the aggregate report and the return
Aggregate ==
    /\ pc = "aggregate"
    /\ totals' = ComputeTotals(allResults)
    /\ overallPassRate' = ComputeOverallPassRate(totals')
    /\ tier' = Tier(overallPassRate')
    /\ pc' = "returned"
    /\ UNCHANGED <<args, allResults, crashed, exitStatus, reporterVars, hunterVars, docVars>>

\* runFullSuite().then(result => process.exit(...)).catch(e => process.exit(1))
Exit ==
    /\ pc \in {"returned", "rejected"}
    /\ exitStatus' = IF pc = "rejected" THEN 1 ELSE ExitStatusOf(totals)
    /\ pc' = "exited"
    /\ UNCHANGED <<args, allResults, crashed, totals, overallPassRate, tier, reporterVars, hunterVars, docVars>>

SuiteInit ==
    /\ args \in ArgSets
    /\ pc = "start"
    /\ allResults = <<>>
    /\ crashed = {}
    /\ totals = [pass |-> 0, fail |-> 0, warn |-> 0, skip |-> 0, total |-> 0]
    /\ overallPassRate = Num(0)
    /\ exitStatus = 0
    /\ tier = "none"

ReporterIdle ==
    /\ results = <<>>
    /\ calls = 0
    /\ summary = NoSummary

InitSuite == SuiteInit /\ ReporterIdle /\ HunterIdle /\ DocsIdle

NextSuite ==
    \/ SuiteStart
    \/ RunRepo
    \/ RunProtocol
    \/ RunHunter
    \/ RunCode
    \/ Aggregate
    \/ Exit

SpecSuite == InitSuite /\ [][NextSuite]_vars


(***************************************************************************)
(* Claims about runFullSuite (SpecSuite)                                   *)
(***************************************************************************)
ValidatorSet == {Validators[i] : i \in DOMAIN Validators}

StageIndex(p) ==
    CASE p = "start" -> 0
      [] p = "repo" -> 1
      [] p = "protocol" -> 2
      [] p = "hunter" -> 3
      [] p = "code" -> 4
      [] p = "aggregate" -> 5
      [] p = "returned" -> 6
      [] p = "exited" -> 7
      [] OTHER -> 8

\* runFullSuite is past the block of validator v
PastBlock(v) == StageIndex(pc) > StageIndex(v) /\ pc # "rejected"

SummariesNamed(name) == {i \in DOMAIN allResults : allResults[i].suite = name}

\* C3: every validator that threw has exactly one synthetic summary in the
\* suite list, with fail = 1, total = 1, pass = 0 and warn = 0; every selected
\* validator, also one selected after a validator that threw, has contributed
\* exactly one summary once its block is passed; the run never rejects, and it
\* can always take its next step until the process has exited.
C3_CrashBecomesOneFail ==
    /\ pc # "rejected"
    /\ \A v \in ValidatorSet :
          PastBlock(v) =>
             /\ v \in crashed =>
                   /\ Selected(v)
                   /\ Cardinality(SummariesNamed(CrashName(v))) = 1
                   /\ \A i \in SummariesNamed(CrashName(v)) :
                         /\ allResults[i].fail = 1
                         /\ allResults[i].total = 1
                         /\ allResults[i].pass = 0
                         /\ allResults[i].warn = 0
             /\ v \notin crashed => SummariesNamed(CrashName(v)) = {}
             /\ Selected(v) =>
                   Cardinality(SummariesNamed(CrashName(v)) \cup SummariesNamed(ReporterName(v))) = 1
    /\ pc \in {"aggregate", "returned", "exited"} =>
          Len(allResults) = Cardinality({v \in ValidatorSet : Selected(v)})
    /\ pc # "exited" => ENABLED NextSuite

\* C3 witness: the first and the last validator threw, the two between them
\* ran all the same, and runFullSuite returned its aggregate.
C3_Witness ==
    /\ pc = "returned"
    /\ crashed = {"repo", "code"}
    /\ Len(allResults) = 4
    /\ allResults[2].suite = ReporterName("protocol")
    /\ allResults[3].suite = ReporterName("hunter")

\* the aggregate fail count, counted over the suite list from its head
RECURSIVE SumFrom(_, _, _)
SumFrom(rs, f, i) ==
    IF i > Len(rs) THEN 0
    ELSE (IF f \in DOMAIN rs[i] THEN rs[i][f] ELSE 0) + SumFrom(rs, f, i + 1)

SumOfSuites(f) == SumFrom(allResults, f, 1)

\* C4: the exit status is 1 if and only if the aggregate fail count is
\* greater than 0, and 0 otherwise; a run in which a validator threw exits 1.
C4_ExitStatusIffFail ==
    pc = "exited" =>
       /\ exitStatus \in {0, 1}
       /\ exitStatus = 1 <=> SumOfSuites("fail") > 0
       /\ exitStatus = 1 <=> totals.fail > 0
       /\ crashed # {} => exitStatus = 1

\* C4 witness: a run whose only FAIL is the synthetic one of a validator that
\* threw has exited with status 1.
C4_Witness ==
    /\ pc = "exited"
    /\ exitStatus = 1
    /\ crashed # {}
    /\ totals.fail = Cardinality(crashed)
    /\ totals.pass > 0

CountFields == {"pass", "fail", "warn", "skip", "total"}

\* C5: once runFullSuite has aggregated, each of totals.pass, fail, warn, skip
\* and total is the sum of that field over the executed suites' summaries (a
\* summary without a skip field counting 0), and
\* totals.pass + totals.fail + totals.warn + totals.skip = totals.total.
C5_TotalsAreSums ==
    pc \in {"returned", "exited"} =>
       /\ \A f \in CountFields : totals[f] = SumOfSuites(f)
       /\ totals.pass + totals.fail + totals.warn + totals.skip = totals.total

\* C5 witness: an aggregate over a crash summary and reporter summaries that
\* hold PASS, FAIL and WARN results.
C5_Witness ==
    /\ pc = "returned"
    /\ crashed # {}
    /\ Len(allResults) >= 3
    /\ totals.pass > 0 /\ totals.warn > 0 /\ totals.fail > Cardinality(crashed)

\* the results a summary stands for: its PASS, FAIL, WARN and SKIP results
\* (the one FAIL of a crash summary)
Repeat(n, x) == [i \in 1..n |-> x]

ResultsOf(r) ==
    Repeat(r.pass, Result("PASS", ReporterTest))
        \o Repeat(r.fail, Result("FAIL", ReporterTest))
        \o Repeat(r.warn, Result("WARN", ReporterTest))
        \o Repeat(SkipOrZero(r), Result("SKIP", ReporterTest))

RECURSIVE Concatenation(_)
Concatenation(rs) ==
    IF rs = <<>> THEN <<>> ELSE ResultsOf(Head(rs)) \o Concatenation(Tail(rs))

\* C6: the overall pass rate runFullSuite returns is the pass rate getSummary
\* gives for the concatenation of all suites' results: 0 when
\* totals.total - totals.skip = 0, 100 * totals.pass / (totals.total - totals.skip)
\* to one decimal otherwise, and always in [0, 100].
C6_OverallRateAsPerSuite ==
    pc \in {"returned", "exited"} =>
       LET all == Concatenation(allResults)
           active == Len(all) - CountStatus(all, "SKIP")
       IN  /\ overallPassRate = getSummary("ALL", all).passRate
           /\ active = 0 => overallPassRate = Num(0)
           /\ active > 0 =>
                 /\ overallPassRate.kind = "num"
                 /\ 2 * active * overallPassRate.tenths <= 2000 * CountStatus(all, "PASS") + active
                 /\ 2 * active * overallPassRate.tenths > 2000 * CountStatus(all, "PASS") - active
           /\ InRange(overallPassRate)

\* C6 witness: an aggregate whose pass rate is neither 0 nor 100, over more
\* than one suite, one of them a crash summary.
C6_Witness ==
    /\ pc = "returned"
    /\ crashed # {}
    /\ Len(allResults) >= 2
    /\ overallPassRate = Num(667)


(***************************************************************************)
(* The tier classification over large aggregates (SpecTier): runFullSuite  *)
(* with --protocol alone, taken up where validateProtocols has returned a  *)
(* summary of many PASS and a few FAIL results (its version check records  *)
(* one result per agent directory, so its counts have no fixed ceiling).   *)
(***************************************************************************)
MaxPass == 114
MaxFail == 6

ManyResults(p, f) ==
    Repeat(p, Result("PASS", ReporterTest)) \o Repeat(f, Result("FAIL", ReporterTest))

LargeSummaries ==
    {RunnerView(getSummary(ReporterName("protocol"), ManyResults(p, f))) :
        p \in 0..MaxPass, f \in 0..MaxFail} \ {RunnerView(getSummary(ReporterName("protocol"), <<>>))}

InitTier ==
    /\ args = {"--protocol"}
    /\ pc = "aggregate"
    /\ \E s \in LargeSummaries : allResults = <<s>>
    /\ crashed = {}
    /\ totals = [pass |-> 0, fail |-> 0, warn |-> 0, skip |-> 0, total |-> 0]
    /\ overallPassRate = Num(0)
    /\ exitStatus = 0
    /\ tier = "none"
    /\ ReporterIdle /\ HunterIdle /\ DocsIdle

NextTier ==
    \/ Aggregate
    \/ Exit

SpecTier == InitTier /\ [][NextTier]_vars

\* r >= percent, for r = 100 * pass / (total - skip) and r = 0 when total - skip = 0
ExactRateAtLeast(percent) ==
    LET active == totals.total - totals.skip
    IN  IF active = 0 THEN 0 >= percent ELSE 100 * totals.pass >= percent * active

\* C16: the tier printed is PRODUCTION READY iff r >= 95, TEST ENVIRONMENT
\* PASS iff 80 <= r < 95, DEVELOPMENT ONLY iff 50 <= r < 80 and CRITICAL iff
\* r < 50, for the exact overall pass rate r = 100 * pass / (total - skip).
C16_TierByExactRate ==
    pc \in {"returned", "exited"} =>
       /\ tier = "PRODUCTION READY" <=> ExactRateAtLeast(95)
       /\ tier = "TEST ENVIRONMENT PASS" <=> (ExactRateAtLeast(80) /\ ~ExactRateAtLeast(95))
       /\ tier = "DEVELOPMENT ONLY" <=> (ExactRateAtLeast(50) /\ ~ExactRateAtLeast(80))
       /\ tier = "CRITICAL" <=> ~ExactRateAtLeast(50)

FlagOf(v) ==
    CASE v = "repo" -> "--repo"
      [] v = "protocol" -> "--protocol"
      [] v = "hunter" -> "--hunter"
      [] v = "code" -> "--code"

\* no argument at all, or the validator's own flag among the arguments
SelectedByArguments(v) == args = {} \/ FlagOf(v) \in args

\* the validator a summary of the suite list came from
ValidatorOfSummary(r) ==
    CHOOSE v \in ValidatorSet : r.suite \in {ReporterName(v), CrashName(v)}

ExecutedInOrder == [i \in DOMAIN allResults |-> ValidatorOfSummary(allResults[i])]

RECURSIVE SelectSeq2(_, _)
SelectSeq2(vs, i) ==
    IF i > Len(vs) THEN <<>>
    ELSE (IF SelectedByArguments(vs[i]) /\ PastBlock(vs[i]) THEN <<vs[i]>> ELSE <<>>)
            \o SelectSeq2(vs, i + 1)

\* the validators the arguments select, among those whose block is passed, in
\* the order repo, protocol, hunter, code
DueInOrder == SelectSeq2(<<"repo", "protocol", "hunter", "code">>, 1)

\* C17: at every point of a run the suite list holds one summary for each
\* validator whose block is passed and that is selected (no argument given,
\* or its own flag among the arguments), none for any other validator, in the
\* order repo, protocol, hunter, code; the run is at one block at a time and
\* the returned suite list has one summary per selected validator.
C17_SelectedRunOnceInOrder ==
    /\ pc \in {"start", "repo", "protocol", "hunter", "code", "aggregate", "returned", "exited"}
    /\ pc # "start" => ExecutedInOrder = DueInOrder
    /\ pc \in {"returned", "exited"} =>
          /\ Len(allResults) = Cardinality({v \in ValidatorSet : SelectedByArguments(v)})
          /\ \A v \in ValidatorSet :
                SelectedByArguments(v) <=> \E i \in DOMAIN allResults : ExecutedInOrder[i] = v

\* C17 witness: with --code and --repo given, the returned suite list holds
\* the repo summary and then the code summary, and nothing else.
C17_Witness ==
    /\ pc = "returned"
    /\ args = {"--code", "--repo"}
    /\ ExecutedInOrder = <<"repo", "code">>

\* C17 witness of the unselected case: an unrecognised flag alone, nothing ran
C17_NothingRan ==
    /\ pc = "returned"
    /\ args = {"--verbose"}
    /\ allResults = <<>>

\* C20: a run in which no check is a FAIL and no validator threw exits with
\* status 0 whatever its pass rate and tier; so does a run in which no
\* validator was executed.
C20_NoFailExitsZero ==
    pc = "exited" =>
       /\ (crashed = {} /\ SumOfSuites("fail") = 0) => exitStatus = 0
       /\ allResults = <<>> =>
             exitStatus = 0 /\ \A f \in CountFields : totals[f] = 0

\* C20 witness: every result of the run is a WARN, the overall pass rate is
\* 0 and the tier CRITICAL, and the process exited with status 0.
C20_Witness ==
    /\ pc = "exited"
    /\ exitStatus = 0
    /\ allResults # <<>>
    /\ totals.warn = totals.total
    /\ totals.warn > 0
    /\ overallPassRate = Num(0)
    /\ tier = "CRITICAL"


(***************************************************************************)
(* validateHunterWorkflow                                                  *)
(*                                                                         *)
(* A JavaScript string is the sequence of its characters, so that          *)
(* toLowerCase and includes are computed and not looked up.  A JSON array  *)
(* is [kind |-> "array", items |-> <<...>>], null is [kind |-> "null"]; a  *)
(* connection is a record that may or may not have a node field.           *)
(*                                                                         *)
(* The blocks modelled are the load, the node count, zombie prevention,    *)
(* the orphan check, the duplicate-name check, the trigger check and the   *)
(* return.  The blocks between them (required nodes, agent nodes,          *)
(* credentials, expressions) record results under other test names and     *)
(* write none of the variables these blocks read.                          *)
(***************************************************************************)
UpperCase == <<"A", "B", "C", "D", "E", "F", "G", "H", "I", "J", "K", "L", "M", "N", "O", "P", "Q", "R", "S", "T", "U", "V", "W", "X", "Y", "Z">>
LowerCase == <<"a", "b", "c", "d", "e", "f", "g", "h", "i", "j", "k", "l", "m", "n", "o", "p", "q", "r", "s", "t", "u", "v", "w", "x", "y", "z">>

CharToLower(c) ==
    IF \E i \in DOMAIN UpperCase : UpperCase[i] = c
    THEN LowerCase[CHOOSE i \in DOMAIN UpperCase : UpperCase[i] = c]
    ELSE c

\* String.prototype.toLowerCase
toLowerCase(str) == [i \in DOMAIN str |-> CharToLower(str[i])]

\* String.prototype.includes
includes(str, sub) ==
    \E i \in 0..(Len(str) - Len(sub)) : SubSeq(str, i + 1, i + Len(sub)) = sub

Str_trigger == <<"t", "r", "i", "g", "g", "e", "r">>
Str_Trigger == <<"T", "r", "i", "g", "g", "e", "r">>
Str_sticky == <<"s", "t", "i", "c", "k", "y">>
Type_manualTrigger == <<"n", "8", "n", "-", "n", "o", "d", "e", "s", "-", "b", "a", "s", "e", ".", "m", "a", "n", "u", "a", "l", "T", "r", "i", "g", "g", "e", "r">>
Type_scheduleTrigger == <<"n", "8", "n", "-", "n", "o", "d", "e", "s", "-", "b", "a", "s", "e", ".", "s", "c", "h", "e", "d", "u", "l", "e", "T", "r", "i", "g", "g", "e", "r">>
Type_code == <<"n", "8", "n", "-", "n", "o", "d", "e", "s", "-", "b", "a", "s", "e", ".", "c", "o", "d", "e">>
Type_stickyNote == <<"n", "8", "n", "-", "n", "o", "d", "e", "s", "-", "b", "a", "s", "e", ".", "s", "t", "i", "c", "k", "y", "N", "o", "t", "e">>
Name_A == <<"A">>
Name_B == <<"B">>
Name_C == <<"C">>
Name_Trigger == <<"O", "n", " ", "T", "r", "i", "g", "g", "e", "r">>
Name_Sticky == <<"S", "t", "i", "c", "k", "y", " ", "N", "o", "t", "e">>

Node(name, type) == [name |-> name, type |-> type]

\* the nodes a workflow of the model is made of
NodeKinds ==
    {Node(Name_A, Type_code), Node(Name_B, Type_code), Node(Name_C, Type_code),
     Node(Name_A, Type_manualTrigger), Node(Name_A, Type_scheduleTrigger),
     Node(Name_B, Str_trigger),
     Node(Name_Trigger, Type_code), Node(Name_Sticky, Type_stickyNote)}

NodeLists == UNION {[1..n -> NodeKinds] : n \in 0..MaxNodes}

JsonArray(items) == [kind |-> "array", items |-> items]
JsonNull == [kind |-> "null"]
isArray(x) == x.kind = "array"

Conn(name) == [node |-> name, type |-> "main", index |-> 0]
ConnWithoutNode == [type |-> "main", index |-> 0]

\* the outputs a source node of the model can have: one target, a malformed
\* group followed by a group with a connection lacking a node and a
\* connection back to the source, or no target array at all
OutputChoices(self, other) ==
    {[main |-> JsonArray(<<JsonArray(<<Conn(other)>>)>>)],
     [main |-> JsonArray(<<JsonNull, JsonArray(<<ConnWithoutNode, Conn(self)>>)>>)],
     [main |-> JsonNull]}

ConnectionSources == {Name_A, Name_B}

OtherSource(name) == IF name = Name_A THEN Name_B ELSE Name_A

ConnectionMaps ==
    UNION {{c \in [S -> UNION {OutputChoices(n, OtherSource(n)) : n \in S}] :
               \A n \in S : c[n] \in OutputChoices(n, OtherSource(n))} :
           S \in SUBSET ConnectionSources}

\* if (conn.node): the field is there and is not the empty string
HasNode(conn) == "node" \in DOMAIN conn /\ conn.node # <<>>

\* the connections of a source's outputs that the loops of lines 107-117 visit
VisitedConns(outputs) ==
    UNION {UNION {{targets.items[g].items[k] : k \in DOMAIN targets.items[g].items} :
                     g \in {h \in DOMAIN targets.items : isArray(targets.items[h])}} :
              targets \in {outputs[key] : key \in {k \in DOMAIN outputs : isArray(outputs[k])}}}

ConnectedNodeNames_SourcesOnly(conns) == DOMAIN conns

\* lines 104-119: every source name, and every conn.node of its outputs
ConnectedNodeNames(conns) ==
    (DOMAIN conns)
        \cup UNION {{conn.node : conn \in {c \in VisitedConns(conns[src]) : HasNode(c)}} :
                       src \in DOMAIN conns}

IsOrphan_StickyNotExcluded(n, connected) ==
    /\ n.name \notin connected
    /\ n.type # Type_manualTrigger
    /\ n.type # Type_scheduleTrigger
    /\ ~includes(toLowerCase(n.name), Str_trigger)

\* the filter of lines 121-127
IsOrphan(n, connected) ==
    /\ n.name \notin connected
    /\ n.type # Type_manualTrigger
    /\ n.type # Type_scheduleTrigger
    /\ ~includes(toLowerCase(n.name), Str_trigger)
    /\ ~includes(toLowerCase(n.name), Str_sticky)

OrphanNodes(ns, connected) == SelectSeq(ns, LAMBDA n : IsOrphan(n, connected))

\* lines 138-141: nameCount, a count per distinct name
NameCount(ns) ==
    [name \in {ns[i].name : i \in DOMAIN ns} |->
        Cardinality({i \in DOMAIN ns : ns[i].name = name})]

\* the keys of nameCount in insertion order: each name where it first occurs
NameKeys(ns) ==
    LET first == SelectSeq([i \in DOMAIN ns |-> i],
                           LAMBDA i : \A j \in 1..(i - 1) : ns[j].name # ns[i].name)
    IN  [k \in DOMAIN first |-> ns[first[k]].name]

Dupes_PerOccurrence(ns) ==
    LET count == NameCount(ns)
        all == [i \in DOMAIN ns |-> ns[i].name]
    IN  SelectSeq(all, LAMBDA name : count[name] > 1)

\* line 142: Object.entries(nameCount).filter(([_, c]) => c > 1), the names
Dupes(ns) ==
    LET count == NameCount(ns)
    IN  SelectSeq(NameKeys(ns), LAMBDA name : count[name] > 1)

\* lines 182-184: the trigger nodes of the pipeline flow check
IsTriggerNode(n) ==
    \/ includes(n.type, Str_Trigger)
    \/ includes(n.type, Str_trigger)
    \/ includes(toLowerCase(n.name), Str_trigger)

CharToUpper(c) ==
    IF \E i \in DOMAIN LowerCase : LowerCase[i] = c
    THEN UpperCase[CHOOSE i \in DOMAIN LowerCase : LowerCase[i] = c]
    ELSE c

\* String.prototype.toUpperCase
toUpperCase(str) == [i \in DOMAIN str |-> CharToUpper(str[i])]

Str_URIEL == <<"U", "R", "I", "E", "L">>
Str_COLOSSUS == <<"C", "O", "L", "O", "S", "S", "U", "S">>
Str_HANIEL == <<"H", "A", "N", "I", "E", "L">>
Str_RAZIEL == <<"R", "A", "Z", "I", "E", "L">>
Str_SARIEL == <<"S", "A", "R", "I", "E", "L">>
Str_GATE == <<"D", "A", "T", "A", " ", "V", "A", "L", "I", "D", "A", "T", "I", "O", "N", " ", "G", "A", "T", "E">>
Name_Sariel == <<"S", "a", "r", "i", "e", "l", " ", "A", "g", "e", "n", "t">>
Name_Format == <<"F", "O", "R", "M", "A", "T">>

\* line 13
AGENT_NODES == <<Str_URIEL, Str_COLOSSUS, Str_HANIEL, Str_RAZIEL, Str_SARIEL>>

\* line 29: [...AGENT_NODES.map(a => a), 'DATA VALIDATION GATE']
STOP_ON_ERROR_NODES == AGENT_NODES \o <<Str_GATE>>

\* a node with the settings the zombie block reads: onError, and
\* parameters.options.alwaysOutputData (a field that is absent is left out)
WithSettings(n, settings) ==
    [f \in DOMAIN n \cup DOMAIN settings |-> IF f \in DOMAIN settings THEN settings[f] ELSE n[f]]

OnErrorChoices ==
    {<<>>, [onError |-> "continueErrorOutput"], [onError |-> "stopWorkflow"]}

AlwaysOutputChoices ==
    {<<>>, [alwaysOutputData |-> TRUE], [alwaysOutputData |-> FALSE]}

\* the nodes of a workflow with agents: an agent under its bare name with
\* every setting, an agent named in mixed case, the validation gate, and a
\* node outside both lists
AgentNodeKinds ==
    {WithSettings(WithSettings(Node(Str_URIEL, Type_code), e), a) :
        e \in OnErrorChoices, a \in AlwaysOutputChoices}
    \cup {WithSettings(Node(Name_Sariel, Type_code), e) : e \in OnErrorChoices}
    \cup {WithSettings(Node(Str_GATE, Type_code), e) : e \in OnErrorChoices}
    \cup {WithSettings(Node(Name_Format, Type_code), [onError |-> "continueErrorOutput"])}

AgentNodeLists == UNION {[1..n -> AgentNodeKinds] : n \in 0..MaxNodes}

\* line 74: AGENT_NODES.some(a => nameUpper.includes(a))
isAgent(n) == \E k \in DOMAIN AGENT_NODES : includes(toUpperCase(n.name), AGENT_NODES[k])

\* lines 75-76: node.parameters?.options?.alwaysOutputData || false
alwaysOutput(n) == IF "alwaysOutputData" \in DOMAIN n THEN n.alwaysOutputData ELSE FALSE

\* line 78: node.onError || 'stopWorkflow'
onError(n) == IF "onError" \in DOMAIN n THEN n.onError ELSE "stopWorkflow"

\* lines 80-92: the two results recorded for one agent node
ZombieResultsOf(n) ==
    <<Result(IF alwaysOutput(n) = TRUE THEN "FAIL" ELSE "PASS", Test("Zombie Check", n.name)),
      Result(IF onError(n) = "continueErrorOutput" THEN "FAIL" ELSE "PASS",
             Test("Error Handling", n.name))>>

\* lines 72-94: the loop over the nodes
RECURSIVE ZombieResults(_)
ZombieResults(ns) ==
    IF ns = <<>> THEN <<>>
    ELSE (IF isAgent(Head(ns)) THEN ZombieResultsOf(Head(ns)) ELSE <<>>)
            \o ZombieResults(Tail(ns))

\* zombieCount after the loop: one per FAIL recorded in it
ZombieCount(ns) ==
    Cardinality({i \in DOMAIN ZombieResults(ns) : ZombieResults(ns)[i].status = "FAIL"})

HunterSuite == "HUNTER WORKFLOW VALIDATOR"

\* lines 34-48, the fetch and the parse succeed
HunterLoadOk ==
    /\ results' = reporter_pass(reporter_pass(results, Test("Workflow JSON Parse", NoName)),
                                Test("Node Count", NoName))
    /\ hpc' = "zombie"
    /\ UNCHANGED summary

\* lines 39-42, getRawFile or JSON.parse throws
HunterLoadFails ==
    /\ results' = reporter_fail(results, Test("Workflow JSON Parse", NoName))
    /\ summary' = getSummary(HunterSuite, results')
    /\ hpc' = "done"

HunterLoad ==
    /\ hpc = "load"
    /\ \/ HunterLoadOk
       \/ HunterLoadFails
    /\ UNCHANGED <<calls, nodes, connections, connectedNodeNames, orphanNodes, dupes, suiteVars, docVars>>

\* lines 70-101
HunterZombieCheck ==
    /\ hpc = "zombie"
    /\ results' =
          IF ZombieCount(nodes) = 0
          THEN reporter_pass(results \o ZombieResults(nodes), Test("Zombie Prevention Summary", NoName))
          ELSE reporter_fail(results \o ZombieResults(nodes), Test("Zombie Prevention Summary", NoName))
    /\ hpc' = "orphan"
    /\ UNCHANGED <<calls, summary, nodes, connections, connectedNodeNames, orphanNodes, dupes,
                   suiteVars, docVars>>

\* lines 103-135
HunterOrphanCheck ==
    /\ hpc = "orphan"
    /\ connectedNodeNames' = ConnectedNodeNames(connections)
    /\ orphanNodes' = OrphanNodes(nodes, connectedNodeNames')
    /\ results' =
          IF Len(orphanNodes') = 0
          THEN reporter_pass(results, Test("Orphan Node Check", NoName))
          ELSE results \o [i \in DOMAIN orphanNodes' |->
                              Result("WARN", Test("Orphan Node", orphanNodes'[i].name))]
    /\ hpc' = "duplicate"
    /\ UNCHANGED <<calls, summary, nodes, connections, dupes, suiteVars, docVars>>

\* lines 137-149
HunterDuplicateCheck ==
    /\ hpc = "duplicate"
    /\ dupes' = Dupes(nodes)
    /\ results' =
          IF Len(dupes') = 0
          THEN reporter_pass(results, Test("Duplicate Name Check", NoName))
          ELSE results \o [i \in DOMAIN dupes' |->
                              Result("FAIL", Test("Duplicate Name", dupes'[i]))]
    /\ hpc' = "trigger"
    /\ UNCHANGED <<calls, summary, nodes, connections, connectedNodeNames, orphanNodes, suiteVars, docVars>>

\* lines 181-189
HunterTriggerCheck ==
    /\ hpc = "trigger"
    /\ results' =
          IF Len(SelectSeq(nodes, IsTriggerNode)) > 0
          THEN reporter_pass(results, Test("Trigger Nodes", NoName))
          ELSE reporter_fail(results, Test("Trigger Nodes", NoName))
    /\ hpc' = "return"
    /\ UNCHANGED <<calls, summary, nodes, connections, connectedNodeNames, orphanNodes, dupes,
                   suiteVars, docVars>>

\* line 191: return reporter.printReport()
HunterReturn ==
    /\ hpc = "return"
    /\ summary' = getSummary(HunterSuite, results)
    /\ hpc' = "done"
    /\ UNCHANGED <<results, calls, nodes, connections, connectedNodeNames, orphanNodes, dupes,
                   suiteVars, docVars>>

HunterInit ==
    /\ nodes \in NodeLists
    /\ connections \in ConnectionMaps
    /\ hpc = "load"
    /\ connectedNodeNames = {}
    /\ orphanNodes = <<>>
    /\ dupes = <<>>

InitHunter == HunterInit /\ ReporterIdle /\ SuiteIdle /\ DocsIdle

NextHunter ==
    \/ HunterLoad
    \/ HunterZombieCheck
    \/ HunterOrphanCheck
    \/ HunterDuplicateCheck
    \/ HunterTriggerCheck
    \/ HunterReturn

SpecHunter == InitHunter /\ [][NextHunter]_vars

\* validateHunterWorkflow on workflows of agent nodes, the gate and one other
\* node, none of them connected
AgentsInit ==
    /\ nodes \in AgentNodeLists
    /\ connections = <<>>
    /\ hpc = "load"
    /\ connectedNodeNames = {}
    /\ orphanNodes = <<>>
    /\ dupes = <<>>

InitAgents == AgentsInit /\ ReporterIdle /\ SuiteIdle /\ DocsIdle

SpecAgents == InitAgents /\ [][NextHunter]_vars


(***************************************************************************)
(* Claims about validateHunterWorkflow (SpecHunter)                        *)
(***************************************************************************)
\* the workflow was loaded and the orphan check has run
OrphanChecked ==
    \/ hpc \in {"duplicate", "trigger", "return"}
    \/ hpc = "done" /\ results[1].status = "PASS"

\* the workflow was loaded and the duplicate-name check has run
DuplicateChecked ==
    \/ hpc \in {"trigger", "return"}
    \/ hpc = "done" /\ results[1].status = "PASS"

\* the names that occur as a destination reference (conn.node) in the map
DestinationNames ==
    {c.node : c \in {d \in UNION {VisitedConns(connections[src]) : src \in DOMAIN connections} :
                        "node" \in DOMAIN d}}

\* the names that occur as a source key of the map
SourceNames == DOMAIN connections

ResultsWith(status, label, name) ==
    {i \in DOMAIN results : results[i] = Result(status, Test(label, name))}

ResultsLabelled(label) == {i \in DOMAIN results : results[i].test[1] = label}

NodeNames == {nodes[i].name : i \in DOMAIN nodes}

\* C7: a node whose name occurs as a destination reference in the connection
\* map is never reported as an orphan, whatever its type: it is not among
\* orphanNodes and no result is recorded under 'Orphan Node: <name>'.
C7_DestinationNeverOrphan ==
    OrphanChecked =>
       \A i \in DOMAIN nodes :
          nodes[i].name \in DestinationNames =>
             /\ \A k \in DOMAIN orphanNodes : orphanNodes[k] # nodes[i]
             /\ \A st \in Statuses : ResultsWith(st, "Orphan Node", nodes[i].name) = {}

\* C7 witness: a destination node of a plain type, neither a trigger nor a
\* sticky and no source itself, passed the check while another node was
\* reported.
C7_Witness ==
    /\ OrphanChecked
    /\ Len(orphanNodes) > 0
    /\ \E i \in DOMAIN nodes :
          /\ nodes[i].name \in DestinationNames \ SourceNames
          /\ nodes[i].type = Type_code

\* the entry-point and decorative exclusions of the orphan filter
IsEntryPoint(n) ==
    \/ n.type = Type_manualTrigger
    \/ n.type = Type_scheduleTrigger
    \/ includes(toLowerCase(n.name), Str_trigger)

IsDecorative(n) == includes(toLowerCase(n.name), Str_sticky)

\* one WARN per node satisfying Reported, and nothing else, under 'Orphan Node'
OrphansAreExactly(Reported(_)) ==
    /\ \A name \in NodeNames :
          Cardinality(ResultsWith("WARN", "Orphan Node", name)) =
             Cardinality({i \in DOMAIN nodes : nodes[i].name = name /\ Reported(nodes[i])})
    /\ \A k \in ResultsLabelled("Orphan Node") :
          results[k].status = "WARN" /\ results[k].test[2] \in NodeNames
    /\ Cardinality(ResultsLabelled("Orphan Node")) =
          Cardinality({i \in DOMAIN nodes : Reported(nodes[i])})

ClaimedOrphan(n) ==
    n.name \notin DestinationNames /\ ~IsEntryPoint(n) /\ ~IsDecorative(n)

\* C8 (as claimed): a node is reported as an orphan, by one WARN and never a
\* FAIL, exactly when its name is no connection destination, it is no
\* entry-point node and its name is not a sticky's; so a plain node that only
\* has outgoing connections is reported.
C8_OrphanIffNotDestination ==
    OrphanChecked => OrphansAreExactly(ClaimedOrphan)

ActualOrphan(n) ==
    /\ n.name \notin DestinationNames
    /\ n.name \notin SourceNames
    /\ ~IsEntryPoint(n)
    /\ ~IsDecorative(n)

\* C8 (amended): a node is reported as an orphan, by one WARN and never a
\* FAIL, exactly when its name is neither a source key nor a destination of
\* the connection map, its type is neither manualTrigger nor scheduleTrigger,
\* and its lower-cased name contains neither 'trigger' nor 'sticky'.
C8_OrphanIffUnconnected ==
    OrphanChecked => OrphansAreExactly(ActualOrphan)

\* C8 witness: a plain node that is a source but no destination was not
\* reported, and a plain node that is neither was.
C8_Witness ==
    /\ OrphanChecked
    /\ \E i \in DOMAIN nodes :
          /\ nodes[i].name \in SourceNames \ DestinationNames
          /\ ~IsEntryPoint(nodes[i]) /\ ~IsDecorative(nodes[i])
          /\ ResultsWith("WARN", "Orphan Node", nodes[i].name) = {}
    /\ \E i \in DOMAIN nodes :
          /\ ActualOrphan(nodes[i])
          /\ ResultsWith("WARN", "Orphan Node", nodes[i].name) # {}

NamesDistinct == \A i, j \in DOMAIN nodes : nodes[i].name = nodes[j].name => i = j

\* C9 (as claimed): when every node is a trigger node (by its type tag or its
\* name, as the trigger check recognises it) or a connection destination, and
\* the names are distinct, no orphan and no duplicate name is reported.
C9_TriggersAndDestinationsClean ==
    (/\ DuplicateChecked
     /\ NamesDistinct
     /\ \A i \in DOMAIN nodes :
           IsTriggerNode(nodes[i]) \/ nodes[i].name \in DestinationNames)
    => /\ ResultsLabelled("Orphan Node") = {}
       /\ ResultsLabelled("Duplicate Name") = {}

\* the names that more than one node has
DuplicatedNames ==
    {name \in NodeNames : \E i, j \in DOMAIN nodes :
                             i # j /\ nodes[i].name = name /\ nodes[j].name = name}

\* C10: the number of 'Duplicate Name' FAIL results is the number of distinct
\* names that occur more than once, one per such name, and one PASS
\* 'Duplicate Name Check' is recorded instead when every name is unique.
C10_OneFailPerDuplicatedName ==
    DuplicateChecked =>
       /\ Cardinality(ResultsLabelled("Duplicate Name")) = Cardinality(DuplicatedNames)
       /\ \A name \in DuplicatedNames :
             Cardinality(ResultsWith("FAIL", "Duplicate Name", name)) = 1
       /\ \A k \in ResultsLabelled("Duplicate Name") : results[k].status = "FAIL"
       /\ Cardinality(ResultsWith("PASS", "Duplicate Name Check", NoName)) =
             (IF DuplicatedNames = {} THEN 1 ELSE 0)
       /\ Cardinality(ResultsLabelled("Duplicate Name Check")) =
             (IF DuplicatedNames = {} THEN 1 ELSE 0)

\* C10 witness: a name carried by three nodes got one FAIL.
C10_Witness ==
    /\ DuplicateChecked
    /\ \E name \in DuplicatedNames :
          /\ Cardinality({i \in DOMAIN nodes : nodes[i].name = name}) = 3
          /\ Cardinality(ResultsWith("FAIL", "Duplicate Name", name)) = 1
    /\ Cardinality(ResultsLabelled("Duplicate Name")) = 1

(***************************************************************************)
(* validateHunterCode (code-validator.js)                                  *)
(*                                                                         *)
(* content[i] is what getRawFile returns for the i-th code file: either    *)
(* the fetch throws, or it yields a text, which vm.Script then parses or   *)
(* rejects.  The text is a sequence of characters and every check on it    *)
(* (includes, toLowerCase, the four key patterns) is computed on it.       *)
(***************************************************************************)
CodeFileEntry(file, module, source) == [file |-> file, module |-> module, source |-> source]

\* lines 13-21
HUNTER_CODE_FILES ==
    <<CodeFileEntry(<<"N", "8", "N", "/", "H", "U", "N", "T", "E", "R", "_", "C", "O", "D", "E", "/", "H", "3", "0", "_", "N", "O", "R", "M", "A", "L", "I", "Z", "E", "_", "F", "I", "N", "N", "H", "U", "B", ".", "j", "s">>,
                    <<"H", "3", "0">>, <<"F", "i", "n", "n", "h", "u", "b">>),
      CodeFileEntry(<<"N", "8", "N", "/", "H", "U", "N", "T", "E", "R", "_", "C", "O", "D", "E", "/", "H", "3", "1", "_", "N", "O", "R", "M", "A", "L", "I", "Z", "E", "_", "C", "O", "N", "G", "R", "E", "S", "S", ".", "j", "s">>,
                    <<"H", "3", "1">>, <<"C", "o", "n", "g", "r", "e", "s", "s", ".", "g", "o", "v">>),
      CodeFileEntry(<<"N", "8", "N", "/", "H", "U", "N", "T", "E", "R", "_", "C", "O", "D", "E", "/", "H", "3", "2", "_", "N", "O", "R", "M", "A", "L", "I", "Z", "E", "_", "S", "E", "N", "A", "T", "E", "_", "L", "D", "A", ".", "j", "s">>,
                    <<"H", "3", "2">>, <<"S", "e", "n", "a", "t", "e", " ", "L", "D", "A">>),
      CodeFileEntry(<<"N", "8", "N", "/", "H", "U", "N", "T", "E", "R", "_", "C", "O", "D", "E", "/", "H", "3", "3", "_", "N", "O", "R", "M", "A", "L", "I", "Z", "E", "_", "U", "S", "A", "S", "P", "E", "N", "D", "I", "N", "G", ".", "j", "s">>,
                    <<"H", "3", "3">>, <<"U", "S", "A", "S", "p", "e", "n", "d", "i", "n", "g">>),
      CodeFileEntry(<<"N", "8", "N", "/", "H", "U", "N", "T", "E", "R", "_", "C", "O", "D", "E", "/", "H", "3", "4", "_", "N", "O", "R", "M", "A", "L", "I", "Z", "E", "_", "F", "E", "C", ".", "j", "s">>,
                    <<"H", "3", "4">>, <<"F", "E", "C">>),
      CodeFileEntry(<<"N", "8", "N", "/", "H", "U", "N", "T", "E", "R", "_", "C", "O", "D", "E", "/", "H", "3", "5", "_", "C", "O", "R", "R", "E", "L", "A", "T", "O", "R", ".", "j", "s">>,
                    <<"H", "3", "5">>, <<"C", "o", "r", "r", "e", "l", "a", "t", "o", "r">>),
      CodeFileEntry(<<"N", "8", "N", "/", "H", "U", "N", "T", "E", "R", "_", "C", "O", "D", "E", "/", "H", "U", "N", "T", "E", "R", "_", "C", "O", "N", "S", "O", "L", "I", "D", "A", "T", "I", "O", "N", "_", "N", "O", "D", "E", ".", "j", "s">>,
                    <<"C", "O", "N", "S", "O", "L", "I", "D", "A", "T", "I", "O", "N">>, <<"C", "o", "n", "s", "o", "l", "i", "d", "a", "t", "i", "o", "n">>)>>

Str_H35 == <<"H", "3", "5">>
Str_CONSOLIDATION == <<"C", "O", "N", "S", "O", "L", "I", "D", "A", "T", "I", "O", "N">>

\* line 24
EXPECTED_NORMALIZE_FIELDS == <<<<"m", "o", "d", "u", "l", "e", "_", "i", "d">>, <<"s", "o", "u", "r", "c", "e">>, <<"t", "i", "m", "e", "s", "t", "a", "m", "p">>, <<"d", "a", "t", "a">>>>

\* line 65
n8nPatterns == <<<<"$", "i", "n", "p", "u", "t">>, <<"i", "t", "e", "m", "s">>, <<"$", "j", "s", "o", "n">>, <<"r", "e", "t", "u", "r", "n">>>>

Str_try == <<"t", "r", "y">>
Str_catch == <<"c", "a", "t", "c", "h">>
Str_sk == <<"s", "k", "-">>
Str_ghp == <<"g", "h", "p", "_">>
Str_pplx == <<"p", "p", "l", "x", "-">>
Str_api == <<"a", "p", "i">>
Str_key == <<"k", "e", "y">>

\* the character U+0060 of a template literal, named here
BackTick == "U+0060"

Digits == {"0", "1", "2", "3", "4", "5", "6", "7", "8", "9"}
Quotes == {"'", "\""}
WhiteSpace == {" ", "\t", "\n"}

\* [a-zA-Z0-9]
Alnum ==
    {LowerCase[i] : i \in DOMAIN LowerCase} \cup {UpperCase[i] : i \in DOMAIN UpperCase} \cup Digits

\* the position after the longest run of characters of a class that starts
\* at pos (pos itself when there is none): where a greedy X* or X{n,} stops
RECURSIVE RunEnd(_, _, _)
RunEnd(str, pos, class) ==
    IF pos <= Len(str) /\ str[pos] \in class THEN RunEnd(str, pos + 1, class) ELSE pos

StartsAt(str, pos, sub) ==
    pos + Len(sub) - 1 <= Len(str) /\ SubSeq(str, pos, pos + Len(sub) - 1) = sub

\* the {20,} of the four patterns
MinKeyRun == 20

\* [a-zA-Z0-9]{20,}['"] from pos on: the run cannot stop short of its end,
\* since what follows a shorter run is alphanumeric and no quote
KeyRunThenQuoteAt(str, pos) ==
    LET end == RunEnd(str, pos, Alnum)
    IN  /\ end - pos >= MinKeyRun
        /\ end <= Len(str)
        /\ str[end] \in Quotes

TestsQuotedKey_QuotesNotRequired(code, prefix) ==
    \E i \in 1..Len(code) :
       /\ StartsAt(code, i, prefix)
       /\ RunEnd(code, i + Len(prefix), Alnum) - (i + Len(prefix)) >= MinKeyRun

\* /['"]<prefix>[a-zA-Z0-9]{20,}['"]/.test(code), lines 93-95
TestsQuotedKey(code, prefix) ==
    \E i \in 1..Len(code) :
       /\ code[i] \in Quotes
       /\ StartsAt(code, i + 1, prefix)
       /\ KeyRunThenQuoteAt(code, i + 1 + Len(prefix))

\* /api[_-]?key\s*[:=]\s*['"][a-zA-Z0-9]{20,}['"]/i.test(code), line 96
TestsApiKeyAssignment(code) ==
    LET lower == toLowerCase(code)
    IN  \E i \in 1..Len(lower) :
           /\ StartsAt(lower, i, Str_api)
           /\ \E sep \in {0, 1} :
                 LET k == i + Len(Str_api) + sep
                     assign == RunEnd(lower, k + Len(Str_key), WhiteSpace)
                     quote == RunEnd(lower, assign + 1, WhiteSpace)
                 IN  /\ sep = 1 => (k - 1 <= Len(lower) /\ lower[k - 1] \in {"_", "-"})
                     /\ StartsAt(lower, k, Str_key)
                     /\ assign <= Len(lower) /\ lower[assign] \in {":", "="}
                     /\ quote <= Len(lower) /\ lower[quote] \in Quotes
                     /\ KeyRunThenQuoteAt(lower, quote + 1)

\* lines 99-106: some pattern of apiKeyPatterns matches
hasHardcodedKey(code) ==
    \/ TestsQuotedKey(code, Str_sk)
    \/ TestsQuotedKey(code, Str_ghp)
    \/ TestsQuotedKey(code, Str_pplx)
    \/ TestsApiKeyAssignment(code)

PassOrWarn(cond) == IF cond THEN "PASS" ELSE "WARN"
PassOrFail(cond) == IF cond THEN "PASS" ELSE "FAIL"

\* lines 81-89
OutputFieldResults(f, code) ==
    IF f.module # Str_H35 /\ f.module # Str_CONSOLIDATION
    THEN [k \in DOMAIN EXPECTED_NORMALIZE_FIELDS |->
             Result(PassOrWarn(includes(code, EXPECTED_NORMALIZE_FIELDS[k])),
                    Test("Output Field", f.module \o <<".">> \o EXPECTED_NORMALIZE_FIELDS[k]))]
    ELSE <<>>

\* lines 50-109: the checks on a text that was loaded and that parses
CodeChecks(f, code) ==
    <<Result(PassOrWarn(includes(code, f.module) \/ includes(code, toLowerCase(f.module))),
             Test("Module ID", f.module)),
      Result(PassOrWarn(includes(toLowerCase(code), toLowerCase(f.source))),
             Test("Source Ref", f.module)),
      Result(PassOrWarn(Cardinality({k \in DOMAIN n8nPatterns : includes(code, n8nPatterns[k])}) >= 2),
             Test("n8n Compat", f.module)),
      Result(PassOrFail(includes(code, Str_try) /\ includes(code, Str_catch)),
             Test("Error Handling", f.module))>>
    \o OutputFieldResults(f, code)
    \o <<Result(PassOrFail(~hasHardcodedKey(code)), Test("Security", f.module))>>

\* lines 29-109: one iteration of the loop over HUNTER_CODE_FILES
CodeFileResults(f, doc) ==
    IF doc.kind = "throws"
    THEN <<Result("FAIL", Test("Load", f.module))>>
    ELSE <<Result("PASS", Test("Load", f.module))>>
            \o (IF ~doc.parses
                 THEN <<Result("FAIL", Test("Syntax", f.module))>>
                 ELSE <<Result("PASS", Test("Syntax", f.module))>> \o CodeChecks(f, doc.code))

FetchThrows == [kind |-> "throws"]

\* a fetch made by a validator: what was asked for, and whether it returned
Fetch(what, outcome) == [what |-> what, ok |-> outcome.kind # "throws"]
Fetched(code, parses) == [kind |-> "text", code |-> code, parses |-> parses]

\* how far above the minimum run the key runs of the model go
KeySlack == 1

RunChars == <<"a", "B", "7">>
KeyRun(n) == [i \in 1..n |-> RunChars[(i % 3) + 1]]

PlainText == <<"t", "r", "y", "{", "r", "e", "t", "u", "r", "n", " ", "i", "t", "e", "m", "s", "}", "c", "a", "t", "c", "h", "(", "e", ")", "{", "}">>

\* texts with an 'sk-' run of 19, 20 or more alphanumerics, with and without
\* a quote, a backtick or another character before and after it, at the start
\* of the text and after an assignment
SkTexts ==
    {lead \o open \o Str_sk \o KeyRun(n) \o close :
        lead \in {<<>>, <<"k", "=">>},
        open \in {<<>>, <<"'">>, <<"\"">>, <<BackTick>>},
        n \in (MinKeyRun - 1)..(MinKeyRun + KeySlack),
        close \in {<<>>, <<"'">>, <<"\"">>, <<";">>}}

\* texts for the other three patterns
OtherKeyTexts ==
    {<<"'">> \o Str_ghp \o KeyRun(MinKeyRun) \o <<"'">>,
     <<"\"">> \o Str_pplx \o KeyRun(MinKeyRun) \o <<"\"">>,
     <<"A", "P", "I", "_", "K", "E", "Y", " ", ":", " ">> \o <<"\"">> \o KeyRun(MinKeyRun) \o <<"\"">>,
     <<"a", "p", "i", "k", "e", "y", "=">> \o <<"'">> \o KeyRun(MinKeyRun - 1) \o <<"'">>}

CodeTexts == SkTexts \cup OtherKeyTexts \cup {PlainText}

CodeDocs == {FetchThrows} \cup {Fetched(t, b) : t \in CodeTexts, b \in BOOLEAN}

\* the seven documents of a run: one of them any document of the model, the
\* six others either all fetched as the plain text or all failing to load
CodeContents ==
    {[i \in DOMAIN HUNTER_CODE_FILES |-> IF i = focus THEN doc ELSE rest] :
        focus \in DOMAIN HUNTER_CODE_FILES, doc \in CodeDocs,
        rest \in {FetchThrows, Fetched(PlainText, TRUE)}}

CodeSuite == "H30-H35 CODE VALIDATOR"

\* lines 29-110, the iteration for HUNTER_CODE_FILES[i]
CodeFile(i) ==
    /\ vpc = <<"file", i>>
    /\ results' = results \o CodeFileResults(HUNTER_CODE_FILES[i], content[i])
    /\ vpc' = IF i = Len(HUNTER_CODE_FILES) THEN <<"return", 0>> ELSE <<"file", i + 1>>
    /\ fetches' = Append(fetches, Fetch(<<"file", HUNTER_CODE_FILES[i].module>>, content[i]))
    /\ UNCHANGED <<calls, summary, content, now, earlier, suiteVars, hunterVars>>

CodeLoop == \E i \in DOMAIN HUNTER_CODE_FILES : CodeFile(i)

\* line 112: return reporter.printReport()
CodeReturn ==
    /\ vpc = <<"return", 0>>
    /\ summary' = getSummary(CodeSuite, results)
    /\ vpc' = <<"done", 0>>
    /\ UNCHANGED <<results, calls, content, now, fetches, earlier, suiteVars, hunterVars>>

CodeInit ==
    /\ content \in CodeContents
    /\ now = 0
    /\ vpc = <<"file", 1>>
    /\ fetches = <<>>
    /\ earlier = NoSummary

InitCode == CodeInit /\ ReporterIdle /\ SuiteIdle /\ HunterIdle

NextCode ==
    \/ CodeLoop
    \/ CodeReturn

SpecCode == InitCode /\ [][NextCode]_vars


(***************************************************************************)
(* Claims about validateHunterCode (SpecCode)                              *)
(***************************************************************************)
CodeDone == vpc = <<"done", 0>>

ModuleOf(i) == HUNTER_CODE_FILES[i].module

\* 'sk-' at position i of the text, followed by at least n alphanumerics
SkRunAt(text, i, n) ==
    /\ i + 2 + n <= Len(text)
    /\ SubSeq(text, i, i + 2) = <<"s", "k", "-">>
    /\ \A k \in 1..n : text[i + 2 + k] \in Alnum

\* the text contains 'sk-' followed by 20 or more alphanumeric characters
ContainsSkRun(text) == \E i \in 1..Len(text) : SkRunAt(text, i, 20)

\* the same, the 'sk-' directly after a single or double quote and the whole
\* run of alphanumerics directly before one
ContainsQuotedSkRun(text) ==
    \E i \in 2..Len(text) : \E n \in 20..Len(text) :
       /\ SkRunAt(text, i, n)
       /\ text[i - 1] \in {"'", "\""}
       /\ i + 3 + n <= Len(text)
       /\ text[i + 3 + n] \in {"'", "\""}

\* none of the other three key rules has anything to match in the text
OnlySkRuleApplies(text) ==
    /\ ~includes(text, Str_ghp)
    /\ ~includes(text, Str_pplx)
    /\ ~includes(toLowerCase(text), Str_key)

C11_BareRunPassed ==
    /\ CodeDone
    /\ \E i \in DOMAIN content :
          /\ content[i].kind = "text"
          /\ content[i].parses
          /\ content[i].code = Str_sk \o KeyRun(20)
          /\ ResultsWith("PASS", "Security", ModuleOf(i)) # {}

(***************************************************************************)
(* Claims about the zombie prevention block (SpecAgents)                   *)
(***************************************************************************)
ZombieChecked ==
    \/ hpc \in {"orphan", "duplicate", "trigger", "return"}
    \/ hpc = "done" /\ results[1].status = "PASS"

\* the node is in the stop-on-error set: its upper-cased name contains one of
\* the five agent names or 'DATA VALIDATION GATE'
InStopOnErrorSet(n) ==
    \E k \in DOMAIN STOP_ON_ERROR_NODES : includes(toUpperCase(n.name), STOP_ON_ERROR_NODES[k])

ContinuesOnError(n) == "onError" \in DOMAIN n /\ n.onError = "continueErrorOutput"

AlwaysOutputs(n) == "alwaysOutputData" \in DOMAIN n /\ n.alwaysOutputData = TRUE

\* C19: once the zombie block has run, every node of the stop-on-error set
\* (the five agents and 'DATA VALIDATION GATE') whose onError is
\* 'continueErrorOutput' has a FAIL 'Error Handling' result, and 'Zombie
\* Prevention Summary' is a PASS exactly when no such node has that setting
\* and no agent node has alwaysOutputData true, and a FAIL otherwise.
C19_StopOnErrorSetChecked ==
    ZombieChecked =>
       LET clean == /\ \A i \in DOMAIN nodes :
                          InStopOnErrorSet(nodes[i]) => ~ContinuesOnError(nodes[i])
                    /\ \A i \in DOMAIN nodes : isAgent(nodes[i]) => ~AlwaysOutputs(nodes[i])
       IN  /\ \A i \in DOMAIN nodes :
                 (InStopOnErrorSet(nodes[i]) /\ ContinuesOnError(nodes[i])) =>
                    ResultsWith("FAIL", "Error Handling", nodes[i].name) # {}
           /\ Cardinality(ResultsLabelled("Zombie Prevention Summary")) = 1
           /\ clean <=> ResultsWith("PASS", "Zombie Prevention Summary", NoName) # {}
           /\ ~clean <=> ResultsWith("FAIL", "Zombie Prevention Summary", NoName) # {}


(***************************************************************************)
(* validateRepos (repo-validator.js)                                       *)
(*                                                                         *)
(* content.listing is what listOwnedRepos returns and content.trees[name]  *)
(* what getRepoTree(name) returns.  githubRequest throws when curl fails   *)
(* or its output is not JSON; an error answer of the API is JSON and is    *)
(* returned as it is: an object without a length for the listing, an       *)
(* object without a tree (read as []) for a tree.  Times are in hours.     *)
(***************************************************************************)
RepoEntry(name, minFiles, critical, requiredDirs) ==
    [name |-> name, minFiles |-> minFiles, critical |-> critical, requiredDirs |-> requiredDirs]

\* lines 11-26, in the order of Object.entries
EXPECTED_REPOS ==
    <<RepoEntry(<<"A", "2", "E", "_", "P", "r", "o", "t", "o", "c", "o", "l", "s">>,
                50, TRUE, <<<<"C", "O", "L", "L", "E", "C", "T", "I", "V", "E">>, <<"P", "R", "O", "T", "O", "C", "O", "L", "S">>, <<"P", "H", "O", "E", "N", "I", "X">>>>),
      RepoEntry(<<"A", "I", "O", "R", "A">>,
                15, TRUE, <<<<"n", "8", "n", "_", "w", "o", "r", "k", "f", "l", "o", "w", "s">>, <<"d", "o", "c", "s">>>>),
      RepoEntry(<<"A", "s", "h", "e", "s", "2", "E", "c", "h", "o", "e", "s">>,
                1, FALSE, <<>>),
      RepoEntry(<<"A", "2", "E", "_", "E", "m", "a", "i", "l", "A", "r", "c", "h", "i", "v", "e">>,
                1, FALSE, <<>>),
      RepoEntry(<<"A", "2", "E", "_", "W", "e", "b", "s", "i", "t", "e">>,
                10, FALSE, <<<<"a", "p", "p">>, <<"c", "o", "m", "p", "o", "n", "e", "n", "t", "s">>>>),
      RepoEntry(<<"A", "2", "E", "_", "A", "p", "p", "a", "r", "e", "l">>,
                1, FALSE, <<>>),
      RepoEntry(<<"A", "2", "E", "_", "I", "n", "f", "r", "a", "s", "t", "r", "u", "c", "t", "u", "r", "e">>,
                3, FALSE, <<>>),
      RepoEntry(<<"t", "e", "s", "t", "-", "h", "a", "r", "n", "e", "s", "s">>,
                5, TRUE, <<<<"s", "r", "c">>>>),
      RepoEntry(<<"g", "i", "t", "h", "u", "b", "-", "m", "c", "p", "-", "s", "e", "r", "v", "e", "r">>,
                3, FALSE, <<>>),
      RepoEntry(<<"A", "l", "l", "C", "h", "a", "t", "s">>,
                0, FALSE, <<>>),
      RepoEntry(<<"f", "o", "r", "g", "e", "-", "l", "a", "n", "d", "i", "n", "g">>,
                1, FALSE, <<>>),
      RepoEntry(<<"e", "t", "r", "a", "d", "e", "-", "o", "a", "u", "t", "h", "-", "d", "e", "b", "u", "g">>,
                1, FALSE, <<>>),
      RepoEntry(<<"n", "8", "n", "-", "d", "o", "c", "s">>,
                1, FALSE, <<>>)>>

\* line 28
STALE_THRESHOLD_DAYS == 30

\* line 66: 1000 * 60 * 60 * 24 milliseconds, in hours
HoursPerDay == 24

\* line 43
ExpectedRepoCount == 13

\* String.prototype.startsWith
startsWith(str, prefix) == Len(prefix) <= Len(str) /\ SubSeq(str, 1, Len(prefix)) = prefix

\* String.prototype.endsWith
endsWith(str, suffix) ==
    Len(suffix) <= Len(str) /\ SubSeq(str, Len(str) - Len(suffix) + 1, Len(str)) = suffix

\* String.prototype.split with a one-character separator
RECURSIVE split(_, _)
split(str, sep) ==
    LET cut == RunEnd(str, 1, {str[i] : i \in DOMAIN str} \ {sep})
    IN  IF cut > Len(str) THEN <<str>>
        ELSE <<SubSeq(str, 1, cut - 1)>> \o split(SubSeq(str, cut + 1, Len(str)), sep)

DigitChars == <<"0", "1", "2", "3", "4", "5", "6", "7", "8", "9">>

\* the decimal digits of a natural number
RECURSIVE NumChars(_)
NumChars(n) ==
    IF n < 10 THEN <<DigitChars[n + 1]>>
    ELSE NumChars(n \div 10) \o <<DigitChars[(n % 10) + 1]>>

TreeEntry(path, type) == [path |-> path, type |-> type]
Tree(entries) == [kind |-> "tree", entries |-> entries]
Listing(repos) == [kind |-> "array", repos |-> repos]
ErrorObject == [kind |-> "object"]
Repo(name, size, updated_at) == [name |-> name, size |-> size, updated_at |-> updated_at]

\* getRepoTree: data.tree || []
getRepoTree(answer) == IF answer.kind = "tree" THEN answer.entries ELSE <<>>

daysSinceUpdate_RoundedUp(repo, t) == (t - repo.updated_at + HoursPerDay - 1) \div HoursPerDay

\* line 66
daysSinceUpdate(repo, t) == (t - repo.updated_at) \div HoursPerDay

StalenessResult_ThresholdExclusive(e, repo, t) ==
    IF daysSinceUpdate(repo, t) < STALE_THRESHOLD_DAYS
    THEN Result("PASS", Test("Fresh", e.name))
    ELSE Result(IF e.critical THEN "FAIL" ELSE "WARN", Test("Stale", e.name))

\* lines 68-74
StalenessResult(e, repo, t) ==
    IF daysSinceUpdate(repo, t) <= STALE_THRESHOLD_DAYS
    THEN Result("PASS", Test("Fresh", e.name))
    ELSE Result(IF e.critical THEN "FAIL" ELSE "WARN", Test("Stale", e.name))

\* line 86: the distinct first path segments of the tree entries
dirs(tree) == {split(tree[k].path, "/")[1] : k \in {j \in DOMAIN tree : tree[j].type = "tree"}}

\* line 87
files(tree) == SelectSeq(tree, LAMBDA t : t.type = "blob")

FileCountResult_WarnWhenBelow(e, tree) ==
    Result(IF Len(files(tree)) >= e.minFiles THEN "PASS" ELSE "WARN", Test("File Count", e.name))

\* lines 90-94
FileCountResult(e, tree) ==
    Result(PassOrFail(Len(files(tree)) >= e.minFiles), Test("File Count", e.name))

\* lines 97-103
DirResults(e, tree) ==
    [d \in DOMAIN e.requiredDirs |->
        Result(PassOrFail(\/ e.requiredDirs[d] \in dirs(tree)
                          \/ \E k \in DOMAIN tree :
                                startsWith(tree[k].path, e.requiredDirs[d] \o <<"/">>)),
               Test("Dir", e.name \o <<"/">> \o e.requiredDirs[d]))]

TreeFetchFailed_AsFail(e) == <<Result("FAIL", Test("Tree", e.name))>>

\* lines 104-106
TreeFetchFailed(e) == <<Result("WARN", Test("Tree", e.name))>>

\* lines 83-107
TreeResults(e, answer) ==
    IF answer.kind = "throws" THEN TreeFetchFailed(e)
    ELSE <<FileCountResult(e, getRepoTree(answer))>> \o DirResults(e, getRepoTree(answer))

\* line 51: repos.find(r => r.name === repoName)
FindRepo(repos, name) ==
    IF \E i \in DOMAIN repos : repos[i].name = name
    THEN <<repos[CHOOSE i \in DOMAIN repos :
                    repos[i].name = name /\ \A j \in 1..(i - 1) : repos[j].name # name]>>
    ELSE <<>>

\* the tree of a repository is fetched: lines 77-84
FetchesTree(e, found) ==
    /\ found # <<>>
    /\ ~(found[1].size = 0 /\ e.minFiles > 0)
    /\ Len(e.requiredDirs) > 0

\* lines 50-108: one iteration of the loop over EXPECTED_REPOS
EntryResults(e, c, t) ==
    LET found == FindRepo(c.listing.repos, e.name)
    IN  IF found = <<>>
        THEN <<Result(IF e.critical THEN "FAIL" ELSE "WARN", Test("Repo Exists", e.name))>>
        ELSE <<Result("PASS", Test("Repo Exists", e.name)), StalenessResult(e, found[1], t)>>
                \o (IF found[1].size = 0 /\ e.minFiles > 0
                     THEN <<Result("FAIL", Test("Empty", e.name))>>
                     ELSE IF Len(e.requiredDirs) > 0 THEN TreeResults(e, c.trees[e.name])
                     ELSE <<>>)

EntryFetches(e, c) ==
    IF FetchesTree(e, FindRepo(c.listing.repos, e.name))
    THEN <<Fetch(<<"tree", e.name>>, c.trees[e.name])>>
    ELSE <<>>

\* lines 111-117
UnknownResults(repos) ==
    LET knownNames == {EXPECTED_REPOS[i].name : i \in DOMAIN EXPECTED_REPOS}
        unknown == SelectSeq(repos, LAMBDA r : r.name \notin knownNames)
    IN  [k \in DOMAIN unknown |-> Result("WARN", Test("Unknown Repo", unknown[k].name))]

ReposSuite == "REPOSITORY HEALTH VALIDATOR"

\* the trees of the model: a directory entry for each of the first nDirs
\* required directories, and nBlobs files, inside the first required
\* directory when it has an entry and at the top level otherwise
BlobPath(e, nDirs, k) ==
    (IF nDirs > 0 THEN e.requiredDirs[1] \o <<"/">> ELSE <<>>) \o <<"f">> \o NumChars(k)

MakeTree(e, nDirs, nBlobs) ==
    Tree([d \in 1..nDirs |-> TreeEntry(e.requiredDirs[d], "tree")]
            \o [k \in 1..nBlobs |-> TreeEntry(BlobPath(e, nDirs, k), "blob")])

DefaultTree(e) == MakeTree(e, Len(e.requiredDirs), e.minFiles)

\* the registry example of the File Count check: 10 files
FewBlobs == 10

BlobCounts(e) == {n \in {e.minFiles - 1, e.minFiles, FewBlobs} : n >= 0}

TreeChoices(e) ==
    IF Len(e.requiredDirs) = 0 THEN {DefaultTree(e)}
    ELSE {FetchThrows, ErrorObject}
            \cup {MakeTree(e, nDirs, nBlobs) :
                     nDirs \in {0, 1, Len(e.requiredDirs)}, nBlobs \in BlobCounts(e)}

\* updated_at of the repositories of the model, and the times of a run
OldUpdate == 0
RecentUpdate == 20 * HoursPerDay
Times ==
    {OldUpdate + STALE_THRESHOLD_DAYS * HoursPerDay,
     OldUpdate + STALE_THRESHOLD_DAYS * HoursPerDay + (HoursPerDay - 1),
     OldUpdate + (STALE_THRESHOLD_DAYS + 1) * HoursPerDay,
     OldUpdate + (STALE_THRESHOLD_DAYS + 1) * HoursPerDay + (HoursPerDay - 1)}

DefaultSize == 10
DefaultRepo(e) == Repo(e.name, DefaultSize, RecentUpdate)

\* what the listing can hold for one registry entry: nothing, or its
\* repository, empty or not, updated long ago or recently
RepoChoices(e) ==
    {<<>>} \cup {<<Repo(e.name, size, upd)>> : size \in {0, DefaultSize}, upd \in {OldUpdate, RecentUpdate}}

\* how many repositories outside the registry a listing can hold
MaxUnknown == 1

UnknownRepo(k) == Repo(<<"X">> \o NumChars(k), DefaultSize, RecentUpdate)

RECURSIVE Flatten(_)
Flatten(seqs) == IF seqs = <<>> THEN <<>> ELSE Head(seqs) \o Flatten(Tail(seqs))

ListingOf(focus, focusRepo, othersListed, nUnknown) ==
    Listing(Flatten([i \in DOMAIN EXPECTED_REPOS |->
                        IF i = focus THEN focusRepo
                        ELSE IF othersListed THEN <<DefaultRepo(EXPECTED_REPOS[i])>>
                        ELSE <<>>])
            \o [k \in 1..nUnknown |-> UnknownRepo(k)])

RegistryNames == {EXPECTED_REPOS[i].name : i \in DOMAIN EXPECTED_REPOS}

EntryNamed(name) == EXPECTED_REPOS[CHOOSE i \in DOMAIN EXPECTED_REPOS : EXPECTED_REPOS[i].name = name]

DefaultTrees == [name \in RegistryNames |-> DefaultTree(EntryNamed(name))]

\* the remote content of a run: the listing fails, or it is an error answer,
\* or it lists one registry repository in any state of the model with any
\* tree of the model, and the other twelve either as expected or not at all
ReposContents ==
    {[listing |-> l, trees |-> DefaultTrees] : l \in {FetchThrows, ErrorObject}}
    \cup UNION {{[listing |-> ListingOf(focus, r, others, u),
                  trees |-> [DefaultTrees EXCEPT ![EXPECTED_REPOS[focus].name] = tr]] :
                    r \in RepoChoices(EXPECTED_REPOS[focus]),
                    tr \in TreeChoices(EXPECTED_REPOS[focus]),
                    others \in BOOLEAN, u \in 0..MaxUnknown} :
                 focus \in DOMAIN EXPECTED_REPOS}

\* lines 33-47, listOwnedRepos throws
ReposLoadFails ==
    /\ content.listing.kind = "throws"
    /\ results' = reporter_fail(results, Test("GitHub API Access", NoName))
    /\ summary' = getSummary(ReposSuite, results')
    /\ vpc' = <<"done", 0>>

\* lines 33-51, listOwnedRepos returns an object that is no array: its
\* length is undefined, and repos.find is not a function
ReposLoadNoArray ==
    /\ content.listing.kind = "object"
    /\ results' = <<Result("PASS", Test("GitHub API Access", NoName)),
                    Result("WARN", Test("Repo Count", NoName))>>
    /\ vpc' = <<"threw", 0>>
    /\ UNCHANGED summary

\* lines 33-47
ReposLoadOk ==
    /\ content.listing.kind = "array"
    /\ results' = <<Result("PASS", Test("GitHub API Access", NoName)),
                    Result(PassOrWarn(Len(content.listing.repos) >= ExpectedRepoCount),
                           Test("Repo Count", NoName))>>
    /\ vpc' = <<"entry", 1>>
    /\ UNCHANGED summary

ReposLoad ==
    /\ vpc = <<"load", 0>>
    /\ \/ ReposLoadFails
       \/ ReposLoadNoArray
       \/ ReposLoadOk
    /\ fetches' = Append(fetches, Fetch(<<"listing">>, content.listing))
    /\ UNCHANGED <<calls, content, now, earlier, suiteVars, hunterVars>>

\* lines 50-108, the iteration for EXPECTED_REPOS[i]
ReposEntry(i) ==
    /\ vpc = <<"entry", i>>
    /\ results' = results \o EntryResults(EXPECTED_REPOS[i], content, now)
    /\ fetches' = fetches \o EntryFetches(EXPECTED_REPOS[i], content)
    /\ vpc' = IF i = Len(EXPECTED_REPOS) THEN <<"unknown", 0>> ELSE <<"entry", i + 1>>
    /\ UNCHANGED <<calls, summary, content, now, earlier, suiteVars, hunterVars>>

ReposLoop == \E i \in DOMAIN EXPECTED_REPOS : ReposEntry(i)

\* lines 110-117
ReposUnknown ==
    /\ vpc = <<"unknown", 0>>
    /\ results' = results \o UnknownResults(content.listing.repos)
    /\ vpc' = <<"return", 0>>
    /\ UNCHANGED <<calls, summary, content, now, fetches, earlier, suiteVars, hunterVars>>

\* line 119
ReposReturn ==
    /\ vpc = <<"return", 0>>
    /\ summary' = getSummary(ReposSuite, results)
    /\ vpc' = <<"done", 0>>
    /\ UNCHANGED <<results, calls, content, now, fetches, earlier, suiteVars, hunterVars>>

\* validateRepos is called again, at the same time or later, and the remote
\* content has not changed: a new TestReporter, the first summary kept aside
ReposRunAgain ==
    /\ vpc = <<"done", 0>>
    /\ earlier = NoSummary
    /\ earlier' = [summary |-> summary, at |-> now]
    /\ \E t \in Times : t >= now /\ now' = t
    /\ results' = <<>>
    /\ summary' = NoSummary
    /\ fetches' = <<>>
    /\ vpc' = <<"load", 0>>
    /\ UNCHANGED <<calls, content, suiteVars, hunterVars>>

ReposInit ==
    /\ content \in ReposContents
    /\ now \in Times
    /\ vpc = <<"load", 0>>
    /\ fetches = <<>>
    /\ earlier = NoSummary

InitRepos == ReposInit /\ ReporterIdle /\ SuiteIdle /\ HunterIdle

NextRepos ==
    \/ ReposLoad
    \/ ReposLoop
    \/ ReposUnknown
    \/ ReposReturn
    \/ ReposRunAgain

SpecRepos == InitRepos /\ [][NextRepos]_vars

(***************************************************************************)
(* Claims about validateRepos (SpecRepos)                                  *)
(***************************************************************************)
ReposDone == vpc = <<"done", 0>>

RanTwice == ReposDone /\ earlier # NoSummary

SameCounts(a, b) == a.pass = b.pass /\ a.fail = b.fail /\ a.warn = b.warn

\* C12 (as claimed): two runs against identical fetched content produce
\* identical pass, fail and warn counts, whenever the runs take place.
C12_CountsFromContentAlone ==
    RanTwice => SameCounts(earlier.summary, summary)

\* the repository was last updated more than 30 whole days before time t
StaleAt(repo, t) == t - repo.updated_at >= (30 + 1) * 24

ListedRegistryRepos ==
    IF content.listing.kind = "array"
    THEN {content.listing.repos[i] : i \in {j \in DOMAIN content.listing.repos :
                                               content.listing.repos[j].name \in RegistryNames}}
    ELSE {}

\* C12 (amended): two runs of validateRepos against identical fetched content
\* produce identical pass, fail and warn counts whenever every registry
\* repository of the listing is on the same side of the 30-day staleness
\* threshold at the times of both runs.
C12_CountsFromContentAndStaleness ==
    (RanTwice /\ \A r \in ListedRegistryRepos : StaleAt(r, earlier.at) <=> StaleAt(r, now))
       => SameCounts(earlier.summary, summary)

\* C12 witness: two runs at different times, with repositories listed and
\* none of them changing sides, gave the same counts; one repository was
\* stale in both.
C12_Witness ==
    /\ RanTwice
    /\ earlier.at < now
    /\ \E r \in ListedRegistryRepos : StaleAt(r, earlier.at) /\ StaleAt(r, now)
    /\ \E r \in ListedRegistryRepos : ~StaleAt(r, earlier.at) /\ ~StaleAt(r, now)
    /\ SameCounts(earlier.summary, summary)

\* the iteration for EXPECTED_REPOS[i] is over
EntryProcessed(i) ==
    \/ vpc[1] = "entry" /\ vpc[2] > i
    \/ vpc[1] \in {"unknown", "return"}
    \/ ReposDone /\ content.listing.kind = "array"

TreeFetched(name) ==
    \E k \in DOMAIN fetches : fetches[k].what = <<"tree", name>> /\ fetches[k].ok

Listed(name) ==
    content.listing.kind = "array"
       /\ \E j \in DOMAIN content.listing.repos : content.listing.repos[j].name = name

\* the number of blobs of the tree fetched for a repository
BlobsFetched(name) ==
    LET answer == content.trees[name]
    IN  IF answer.kind = "tree"
        THEN Cardinality({k \in DOMAIN answer.entries : answer.entries[k].type = "blob"})
        ELSE 0

\* C13: for every registry entry whose repository is listed and whose tree
\* was fetched with fewer blobs than the entry's minFiles, exactly one FAIL
\* 'File Count' result, and no other 'File Count' result, is recorded for
\* that repository.
C13_FewBlobsOneFail ==
    \A i \in DOMAIN EXPECTED_REPOS :
       LET e == EXPECTED_REPOS[i]
       IN  (/\ EntryProcessed(i)
            /\ Listed(e.name)
            /\ TreeFetched(e.name)
            /\ BlobsFetched(e.name) < e.minFiles) =>
              /\ Cardinality(ResultsWith("FAIL", "File Count", e.name)) = 1
              /\ ResultsWith("PASS", "File Count", e.name) = {}
              /\ ResultsWith("WARN", "File Count", e.name) = {}

\* C13 witness: the entry with minFiles 50 and critical true, its repository
\* listed, its tree fetched with 10 blobs, and one FAIL 'File Count' for it.
C13_Witness ==
    /\ ReposDone
    /\ \E i \in DOMAIN EXPECTED_REPOS :
          /\ EXPECTED_REPOS[i].minFiles = 50
          /\ EXPECTED_REPOS[i].critical
          /\ Listed(EXPECTED_REPOS[i].name)
          /\ TreeFetched(EXPECTED_REPOS[i].name)
          /\ BlobsFetched(EXPECTED_REPOS[i].name) = 10
          /\ Cardinality(ResultsWith("FAIL", "File Count", EXPECTED_REPOS[i].name)) = 1

\* the result is a FAIL recorded for the thing that was fetched
FailFor(r, what) ==
    /\ r.status = "FAIL"
    /\ \/ what = <<"listing">> /\ r.test[1] = "GitHub API Access"
       \/ what[1] = "tree" /\ r.test[1] \in {"Tree", "File Count"} /\ r.test[2] = what[2]

\* C15: every fetch of validateRepos that failed is recorded as a FAIL
\* result for its check, the per-repository tree fetch included, and the
\* validator never aborts.
C15_FetchFailureIsFail ==
    /\ vpc # <<"threw", 0>>
    /\ \A k \in DOMAIN fetches :
          ~fetches[k].ok => \E j \in DOMAIN results : FailFor(results[j], fetches[k].what)

(***************************************************************************)
(* validateProtocols (protocol-validator.js)                               *)
(*                                                                         *)
(* content.tree is what getRepoTree('A2E_Protocols') returns, and          *)
(* content.metatron, .micha, .phoenix and .ironclad what getRawFile        *)
(* returns for the four documents: the fetch throws, or it yields a text.  *)
(***************************************************************************)
\* lines 143-149
REQUIRED_PRODUCTION_FILES ==
    <<<<"P", "R", "O", "T", "O", "C", "O", "L", "S", "/", "P", "R", "O", "D", "U", "C", "T", "I", "O", "N", "/", "M", "E", "T", "A", "T", "R", "O", "N", "_", "v", "1", "0", ".", "5", "_", "P", "R", "I", "M", "E", "_", "D", "I", "R", "E", "C", "T", "I", "V", "E", ".", "m", "d">>,
      <<"P", "R", "O", "T", "O", "C", "O", "L", "S", "/", "P", "R", "O", "D", "U", "C", "T", "I", "O", "N", "/", "F", "I", "D", "E", "L", "I", "T", "Y", "_", "L", "O", "C", "K", "_", "v", "1", "0", ".", "5", ".", "m", "d">>,
      <<"P", "R", "O", "T", "O", "C", "O", "L", "S", "/", "P", "R", "O", "D", "U", "C", "T", "I", "O", "N", "/", "H", "U", "N", "T", "E", "R", "_", "W", "I", "R", "I", "N", "G", "_", "D", "I", "A", "G", "R", "A", "M", "_", "v", "1", "1", ".", "0", ".", "m", "d">>,
      <<"P", "R", "O", "T", "O", "C", "O", "L", "S", "/", "P", "R", "O", "D", "U", "C", "T", "I", "O", "N", "/", "B", "U", "I", "L", "D", "_", "S", "E", "Q", "U", "E", "N", "C", "E", "_", "v", "1", "0", ".", "5", ".", "m", "d">>,
      <<"P", "R", "O", "T", "O", "C", "O", "L", "S", "/", "I", "R", "O", "N", "C", "L", "A", "D", "/", "I", "R", "O", "N", "C", "L", "A", "D", "_", "P", "R", "O", "T", "O", "C", "O", "L", "_", "v", "1", ".", "0", ".", "m", "d">>>>

\* lines 152-160
REQUIRED_AGENT_FILES ==
    <<<<"C", "O", "L", "L", "E", "C", "T", "I", "V", "E", "/", "M", "I", "C", "H", "A", "/", "M", "I", "C", "H", "A", "_", "I", "N", "S", "T", "R", "U", "C", "T", "I", "O", "N", "S", "_", "v", "1", "0", ".", "4", ".", "m", "d">>,
      <<"C", "O", "L", "L", "E", "C", "T", "I", "V", "E", "/", "U", "R", "I", "E", "L", "/", "U", "R", "I", "E", "L", "_", "I", "N", "S", "T", "R", "U", "C", "T", "I", "O", "N", "S", "_", "v", "1", "0", ".", "3", ".", "m", "d">>,
      <<"C", "O", "L", "L", "E", "C", "T", "I", "V", "E", "/", "C", "O", "L", "O", "S", "S", "U", "S", "/", "C", "O", "L", "O", "S", "S", "U", "S", "_", "I", "N", "S", "T", "R", "U", "C", "T", "I", "O", "N", "S", "_", "v", "1", "0", ".", "3", ".", "m", "d">>,
      <<"C", "O", "L", "L", "E", "C", "T", "I", "V", "E", "/", "H", "A", "N", "I", "E", "L", "/", "H", "A", "N", "I", "E", "L", "_", "I", "N", "S", "T", "R", "U", "C", "T", "I", "O", "N", "S", "_", "v", "1", "0", ".", "3", ".", "m", "d">>,
      <<"C", "O", "L", "L", "E", "C", "T", "I", "V", "E", "/", "R", "A", "Z", "I", "E", "L", "/", "R", "A", "Z", "I", "E", "L", "_", "I", "N", "S", "T", "R", "U", "C", "T", "I", "O", "N", "S", "_", "v", "1", "0", ".", "3", ".", "m", "d">>,
      <<"C", "O", "L", "L", "E", "C", "T", "I", "V", "E", "/", "G", "A", "B", "R", "I", "E", "L", "/", "G", "A", "B", "R", "I", "E", "L", "_", "I", "N", "S", "T", "R", "U", "C", "T", "I", "O", "N", "S", "_", "v", "1", "0", ".", "3", ".", "m", "d">>,
      <<"C", "O", "L", "L", "E", "C", "T", "I", "V", "E", "/", "S", "E", "R", "A", "P", "H", "/", "S", "E", "R", "A", "P", "H", "_", "I", "N", "S", "T", "R", "U", "C", "T", "I", "O", "N", "S", "_", "v", "1", "0", ".", "3", ".", "m", "d">>>>

\* lines 163-173
METATRON_REQUIRED_SECTIONS ==
    <<<<"P", "r", "i", "n", "c", "i", "p", "a", "l", " ", "A", "u", "t", "h", "o", "r", "i", "t", "y">>,
      <<"1", "0", "0", "%", " ", "R", "u", "l", "e">>,
      <<"F", "I", "D", "E", "L", "I", "T", "Y", " ", "L", "O", "C", "K">>,
      <<"G", "A", "T", "E">>,
      <<"H", "U", "N", "T", "E", "R">>,
      <<"I", "R", "O", "N", "C", "L", "A", "D">>,
      <<"P", "H", "O", "E", "N", "I", "X">>,
      <<"S", "E", "N", "T", "I", "N", "E", "L">>,
      <<"C", "o", "u", "n", "t", "e", "r", "-", "T", "h", "e", "s", "i", "s">>>>

\* lines 176-187
MICHA_REQUIRED_SECTIONS ==
    <<<<"I", "D", "E", "N", "T", "I", "T", "Y">>,
      <<"G", "A", "T", "E", " ", "0", ".", "7", "5">>,
      <<"C", "O", "R", "E", " ", "F", "U", "N", "C", "T", "I", "O", "N", "S">>,
      <<"I", "n", "t", "e", "l", "l", "i", "g", "e", "n", "t", " ", "R", "o", "u", "t", "e", "r">>,
      <<"G", "r", "a", "n", "d", " ", "S", "y", "n", "t", "h", "e", "s", "i", "z", "e", "r">>,
      <<"C", "I", "O", " ", "O", "p", "e", "r", "a", "t", "i", "o", "n", "s">>,
      <<"G", "A", "T", "E", " ", "E", "N", "F", "O", "R", "C", "E", "M", "E", "N", "T">>,
      <<"R", "O", "U", "T", "I", "N", "G", " ", "T", "A", "B", "L", "E">>,
      <<"T", "R", "I", "G", "G", "E", "R", " ", "C", "O", "M", "M", "A", "N", "D", "S">>,
      <<"P", "H", "O", "E", "N", "I", "X", " ", "P", "R", "O", "T", "O", "C", "O", "L">>>>

\* line 301
phoenixRequired == <<<<"S", "e", "s", "s", "i", "o", "n", " ", "O", "p", "e", "n">>,
      <<"S", "e", "s", "s", "i", "o", "n", " ", "C", "l", "o", "s", "e">>,
      <<"c", "a", "r", "r", "y", "-", "f", "o", "r", "w", "a", "r", "d">>>>

\* line 331
riskChecks == <<<<"1", ".", "5", "%">>,
      <<"2", "0", "%">>,
      <<"3", "5", "%">>,
      <<"S", "T", "O", "P">>,
      <<"P", "H", "O", "E", "N", "I", "X">>>>

Str_COLLECTIVE_Slash == <<"C", "O", "L", "L", "E", "C", "T", "I", "V", "E", "/">>
Str_ARCHIVE_Slash == <<"A", "R", "C", "H", "I", "V", "E", "/">>
Str_dot_md == <<".", "m", "d">>
Str_v10_5 == <<"v", "1", "0", ".", "5">>
Str_METATRON_v10_5 == <<"M", "E", "T", "A", "T", "R", "O", "N", " ", "v", "1", "0", ".", "5">>
Str_METATRON_v10_3 == <<"M", "E", "T", "A", "T", "R", "O", "N", " ", "v", "1", "0", ".", "3">>
Str_SECTOR_SCAN == <<"S", "E", "C", "T", "O", "R", " ", "S", "C", "A", "N">>
Str_WIDE_NET == <<"W", "I", "D", "E", " ", "N", "E", "T">>

Doc(text) == [kind |-> "text", text |-> text]

\* Array.prototype.pop of a split: the last segment
LastSegment(path) == split(path, "/")[Len(split(path, "/"))]

\* str.match(/v(\d+\.\d+)/): the first capture of the first match, if any.
\* Each \d+ takes the whole run of digits: a shorter one is followed by a
\* digit, where the pattern wants the dot or is free to stop.
VersionAt(str, i) ==
    LET dot == RunEnd(str, i + 1, Digits)
        end == RunEnd(str, dot + 1, Digits)
    IN  IF /\ str[i] = "v"
           /\ dot > i + 1
           /\ dot <= Len(str) /\ str[dot] = "."
           /\ end > dot + 1
        THEN <<SubSeq(str, i + 1, end - 1)>>
        ELSE <<>>

matchVersion(str) ==
    LET hits == {i \in DOMAIN str : VersionAt(str, i) # <<>>}
    IN  IF hits = {} THEN <<>>
        ELSE VersionAt(str, CHOOSE i \in hits : \A j \in hits : i <= j)

\* str.replace(sub, ''): the first occurrence taken out
removeFirst(str, sub) ==
    LET hits == {i \in 1..(Len(str) - Len(sub) + 1) : SubSeq(str, i, i + Len(sub) - 1) = sub}
    IN  IF hits = {} THEN str
        ELSE LET at == CHOOSE i \in hits : \A j \in hits : i <= j
             IN  SubSeq(str, 1, at - 1) \o SubSeq(str, at + Len(sub), Len(str))

\* line 202
filePaths(tree) == [k \in DOMAIN files(tree) |-> files(tree)[k].path]

SeqIncludes(sq, x) == \E k \in DOMAIN sq : sq[k] = x

\* lines 205-220
RequiredFileResults(paths, label, required) ==
    [k \in DOMAIN required |->
        Result(PassOrFail(SeqIncludes(paths, required[k])), Test(label, LastSegment(required[k])))]

\* line 223
collectiveFiles(paths) ==
    SelectSeq(paths, LAMBDA q : startsWith(q, Str_COLLECTIVE_Slash) /\ endsWith(q, Str_dot_md))

\* lines 226-233: the files that carry a version, with their agent
versioned(paths) ==
    LET withMatch == SelectSeq(collectiveFiles(paths), LAMBDA f : matchVersion(f) # <<>>)
    IN  [k \in DOMAIN withMatch |->
            [path |-> withMatch[k], agent |-> split(withMatch[k], "/")[2],
             version |-> matchVersion(withMatch[k])[1]]]

\* the keys of agentVersions in insertion order
agentKeys(vs) ==
    LET first == SelectSeq([i \in DOMAIN vs |-> i],
                           LAMBDA i : \A j \in 1..(i - 1) : vs[j].agent # vs[i].agent)
    IN  [k \in DOMAIN first |-> vs[first[k]].agent]

\* lines 235-242
VersionResults(paths) ==
    LET vs == versioned(paths)
        keys == agentKeys(vs)
    IN  [k \in DOMAIN keys |->
            IF Len(SelectSeq(vs, LAMBDA v : v.agent = keys[k])) > 1
            THEN Result("WARN", Test("Multiple Versions", keys[k]))
            ELSE Result("PASS", Test("Version Clean", keys[k]))]

\* a loop over required sections: PASS for those found, FAIL for the others
SectionResults(label, sections, found) ==
    [k \in DOMAIN sections |-> Result(PassOrFail(sections[k] \in found), Test(label, sections[k]))]

\* the entries of a list that a text, taken in lower case, contains in lower case
FoundIgnoringCase(text, wanted) ==
    {wanted[k] : k \in {j \in DOMAIN wanted : includes(toLowerCase(text), toLowerCase(wanted[j]))}}

\* lines 245-265
MetatronResults(doc) ==
    IF doc.kind = "throws" THEN <<Result("FAIL", Test("METATRON Load", NoName))>>
    ELSE <<Result("PASS", Test("METATRON Load", NoName))>>
            \o SectionResults("METATRON Section", METATRON_REQUIRED_SECTIONS,
                              FoundIgnoringCase(doc.text, METATRON_REQUIRED_SECTIONS))
            \o <<Result(PassOrFail(includes(doc.text, Str_v10_5)),
                        Test("METATRON Version String", NoName))>>

\* lines 268-295
MichaResults(doc) ==
    IF doc.kind = "throws" THEN <<Result("FAIL", Test("MICHA Load", NoName))>>
    ELSE <<Result("PASS", Test("MICHA Load", NoName))>>
            \o SectionResults("MICHA Section", MICHA_REQUIRED_SECTIONS,
                              {MICHA_REQUIRED_SECTIONS[k] :
                                  k \in {j \in DOMAIN MICHA_REQUIRED_SECTIONS :
                                            includes(doc.text, MICHA_REQUIRED_SECTIONS[j])}})
            \o <<Result(PassOrWarn(\/ includes(doc.text, Str_METATRON_v10_5)
                                   \/ includes(doc.text, Str_METATRON_v10_3)),
                        Test("MICHA->METATRON Reference", NoName)),
                 Result(PassOrFail(includes(doc.text, Str_SECTOR_SCAN) /\ includes(doc.text, Str_WIDE_NET)),
                        Test("MICHA 7 Locks", NoName))>>

\* lines 298-312
PhoenixResults(doc) ==
    IF doc.kind = "throws" THEN <<Result("FAIL", Test("PHOENIX Load", NoName))>>
    ELSE <<Result("PASS", Test("PHOENIX Load", NoName))>>
            \o SectionResults("PHOENIX Section", phoenixRequired,
                              FoundIgnoringCase(doc.text, phoenixRequired))

\* lines 315-326
ArchiveResults(paths) ==
    LET archiveFiles == SelectSeq(paths, LAMBDA q : startsWith(q, Str_ARCHIVE_Slash))
        prodVersions == SelectSeq(REQUIRED_PRODUCTION_FILES, LAMBDA f : matchVersion(f) # <<>>)
        conflict(f) ==
            \E k \in DOMAIN archiveFiles :
               /\ includes(archiveFiles[k], matchVersion(f)[1])
               /\ includes(archiveFiles[k],
                           removeFirst(LastSegment(f), <<"_", "v">> \o matchVersion(f)[1]))
        hits == SelectSeq(prodVersions, conflict)
    IN  [k \in DOMAIN hits |-> Result("WARN", Test("Archive Conflict", NoName))]

\* lines 329-341
IroncladResults(doc) ==
    IF doc.kind = "throws" THEN <<Result("FAIL", Test("IRONCLAD Load", NoName))>>
    ELSE [k \in DOMAIN riskChecks |->
             Result(PassOrWarn(includes(doc.text, riskChecks[k])), Test("IRONCLAD", riskChecks[k]))]

ProtocolSuite == "PROTOCOL VALIDATOR"

\* the documents of the model: one that has everything its checks look
\* for, and the same in lower case, which the case-sensitive checks miss
RECURSIVE JoinLines(_)
JoinLines(lines) ==
    IF lines = <<>> THEN <<>> ELSE Head(lines) \o <<"\n">> \o JoinLines(Tail(lines))

MetatronText == JoinLines(METATRON_REQUIRED_SECTIONS \o <<Str_v10_5>>)
MichaText == JoinLines(MICHA_REQUIRED_SECTIONS \o <<Str_METATRON_v10_5, Str_SECTOR_SCAN, Str_WIDE_NET>>)
PhoenixText == JoinLines(phoenixRequired)
IroncladText == JoinLines(riskChecks)

DocNames == <<"metatron", "micha", "phoenix", "ironclad">>

FullText(d) ==
    CASE d = "metatron" -> MetatronText
      [] d = "micha" -> MichaText
      [] d = "phoenix" -> PhoenixText
      [] d = "ironclad" -> IroncladText

DocChoices(d) == {FetchThrows, Doc(FullText(d)), Doc(toLowerCase(FullText(d)))}

\* files beside the required ones that a tree of the model can hold
ExtraFiles ==
    <<<<"C", "O", "L", "L", "E", "C", "T", "I", "V", "E", "/", "M", "I", "C", "H", "A", "/", "M", "I", "C", "H", "A", "_", "I", "N", "S", "T", "R", "U", "C", "T", "I", "O", "N", "S", "_", "v", "1", "0", ".", "3", ".", "m", "d">>,
      <<"C", "O", "L", "L", "E", "C", "T", "I", "V", "E", "/", "M", "I", "C", "H", "A", "/", "M", "I", "C", "H", "A", "_", "N", "O", "T", "E", "S", "_", "v", "1", "0", ".", "4", ".", "m", "d">>,
      <<"C", "O", "L", "L", "E", "C", "T", "I", "V", "E", "/", "M", "I", "C", "H", "A", "/", "R", "E", "A", "D", "M", "E", ".", "m", "d">>,
      <<"C", "O", "L", "L", "E", "C", "T", "I", "V", "E", "/", "U", "R", "I", "E", "L", "/", "C", "H", "A", "N", "G", "E", "S", "_", "v", "1", ".", "0", "_", "t", "o", "_", "v", "1", "0", ".", "3", ".", "m", "d">>,
      <<"C", "O", "L", "L", "E", "C", "T", "I", "V", "E", "/", "N", "O", "T", "E", "S", "_", "v", "2", ".", "0", ".", "m", "d">>,
      <<"C", "O", "L", "L", "E", "C", "T", "I", "V", "E", "/", "U", "R", "I", "E", "L", "/", "U", "R", "I", "E", "L", "_", "v", "1", "0", ".", "3", ".", "t", "x", "t">>,
      <<"A", "R", "C", "H", "I", "V", "E", "/", "v", "1", "0", ".", "5", "/", "F", "I", "D", "E", "L", "I", "T", "Y", "_", "L", "O", "C", "K", ".", "m", "d">>>>

\* how many of them a tree holds at most
MaxExtraFiles == 2

ExtraChoices ==
    {SelectSeq(ExtraFiles, LAMBDA q : q \in chosen) :
        chosen \in {c \in SUBSET {ExtraFiles[k] : k \in DOMAIN ExtraFiles} :
                       Cardinality(c) <= MaxExtraFiles}}

BlobsOf(paths) == [k \in DOMAIN paths |-> TreeEntry(paths[k], "blob")]

ProtocolTrees ==
    {FetchThrows, ErrorObject}
    \cup {Tree(BlobsOf(required \o extras)) :
             required \in {<<>>, REQUIRED_PRODUCTION_FILES \o REQUIRED_AGENT_FILES},
             extras \in ExtraChoices}

\* the remote content of a run: any tree of the model; one of the four
\* documents in any state of the model, the three others all complete or all
\* failing to load
ProtocolContents ==
    UNION {{[f \in {"tree", "metatron", "micha", "phoenix", "ironclad"} |->
                IF f = "tree" THEN tr
                ELSE IF f = focus THEN doc
                ELSE IF restLoads THEN Doc(FullText(f))
                ELSE FetchThrows] :
              tr \in ProtocolTrees, doc \in DocChoices(focus), restLoads \in BOOLEAN} :
           focus \in {DocNames[k] : k \in DOMAIN DocNames}}

\* lines 193-200
ProtocolLoad ==
    /\ vpc = <<"load", 0>>
    /\ fetches' = Append(fetches, Fetch(<<"tree">>, content.tree))
    /\ IF content.tree.kind = "throws"
       THEN /\ results' = reporter_fail(results, Test("Repository Access", NoName))
            /\ summary' = getSummary(ProtocolSuite, results')
            /\ vpc' = <<"done", 0>>
       ELSE /\ results' = reporter_pass(results, Test("Repository Access", NoName))
            /\ vpc' = <<"files", 0>>
            /\ UNCHANGED summary
    /\ UNCHANGED <<calls, content, now, earlier, suiteVars, hunterVars>>

\* line 202
protocolPaths == filePaths(getRepoTree(content.tree))

\* lines 204-220
ProtocolFiles ==
    /\ vpc = <<"files", 0>>
    /\ results' = results \o (RequiredFileResults(protocolPaths, "Production File", REQUIRED_PRODUCTION_FILES)
                                \o RequiredFileResults(protocolPaths, "Agent File", REQUIRED_AGENT_FILES))
    /\ vpc' = <<"versions", 0>>
    /\ UNCHANGED <<calls, summary, content, now, fetches, earlier, suiteVars, hunterVars>>

\* lines 222-242
ProtocolVersions ==
    /\ vpc = <<"versions", 0>>
    /\ results' = results \o VersionResults(protocolPaths)
    /\ vpc' = <<"metatron", 0>>
    /\ UNCHANGED <<calls, summary, content, now, fetches, earlier, suiteVars, hunterVars>>

\* lines 244-265
ProtocolMetatron ==
    /\ vpc = <<"metatron", 0>>
    /\ fetches' = Append(fetches, Fetch(<<"metatron">>, content.metatron))
    /\ results' = results \o MetatronResults(content.metatron)
    /\ vpc' = <<"micha", 0>>
    /\ UNCHANGED <<calls, summary, content, now, earlier, suiteVars, hunterVars>>

\* lines 267-295
ProtocolMicha ==
    /\ vpc = <<"micha", 0>>
    /\ fetches' = Append(fetches, Fetch(<<"micha">>, content.micha))
    /\ results' = results \o MichaResults(content.micha)
    /\ vpc' = <<"phoenix", 0>>
    /\ UNCHANGED <<calls, summary, content, now, earlier, suiteVars, hunterVars>>

\* lines 297-312
ProtocolPhoenix ==
    /\ vpc = <<"phoenix", 0>>
    /\ fetches' = Append(fetches, Fetch(<<"phoenix">>, content.phoenix))
    /\ results' = results \o PhoenixResults(content.phoenix)
    /\ vpc' = <<"archive", 0>>
    /\ UNCHANGED <<calls, summary, content, now, earlier, suiteVars, hunterVars>>

\* lines 314-326
ProtocolArchive ==
    /\ vpc = <<"archive", 0>>
    /\ results' = results \o ArchiveResults(protocolPaths)
    /\ vpc' = <<"ironclad", 0>>
    /\ UNCHANGED <<calls, summary, content, now, fetches, earlier, suiteVars, hunterVars>>

\* lines 328-341
ProtocolIronclad ==
    /\ vpc = <<"ironclad", 0>>
    /\ fetches' = Append(fetches, Fetch(<<"ironclad">>, content.ironclad))
    /\ results' = results \o IroncladResults(content.ironclad)
    /\ vpc' = <<"return", 0>>
    /\ UNCHANGED <<calls, summary, content, now, earlier, suiteVars, hunterVars>>

\* line 343
ProtocolReturn ==
    /\ vpc = <<"return", 0>>
    /\ summary' = getSummary(ProtocolSuite, results)
    /\ vpc' = <<"done", 0>>
    /\ UNCHANGED <<results, calls, content, now, fetches, earlier, suiteVars, hunterVars>>

ProtocolInit ==
    /\ content \in ProtocolContents
    /\ now = 0
    /\ vpc = <<"load", 0>>
    /\ fetches = <<>>
    /\ earlier = NoSummary

InitProtocols == ProtocolInit /\ ReporterIdle /\ SuiteIdle /\ HunterIdle

NextProtocols ==
    \/ ProtocolLoad
    \/ ProtocolFiles
    \/ ProtocolVersions
    \/ ProtocolMetatron
    \/ ProtocolMicha
    \/ ProtocolPhoenix
    \/ ProtocolArchive
    \/ ProtocolIronclad
    \/ ProtocolReturn

SpecProtocols == InitProtocols /\ [][NextProtocols]_vars

(***************************************************************************)
(* Claims about validateProtocols (SpecProtocols)                          *)
(***************************************************************************)
ProtocolDone == vpc = <<"done", 0>>

LoadLabel(d) ==
    CASE d = "metatron" -> "METATRON Load"
      [] d = "micha" -> "MICHA Load"
      [] d = "phoenix" -> "PHOENIX Load"
      [] d = "ironclad" -> "IRONCLAD Load"

\* a label of the checks made on the text of a document
CheckLabel(d) ==
    CASE d = "metatron" -> "METATRON Section"
      [] d = "micha" -> "MICHA Section"
      [] d = "phoenix" -> "PHOENIX Section"
      [] d = "ironclad" -> "IRONCLAD"

\* C14: when the run is over, a document that could not be acquired has
\* exactly one FAIL, and the checks of every other document, fetched
\* separately, have run all the same: a document that was acquired has its
\* results, and one that was not has its own single FAIL.  The documents are
\* the repository tree, METATRON, MICHA, PHOENIX and IRONCLAD.
C14_OnlyDependentChecksSkipped ==
    ProtocolDone =>
       /\ content.tree.kind = "throws" =>
             Cardinality(ResultsWith("FAIL", "Repository Access", NoName)) = 1
       /\ \A k \in DOMAIN DocNames :
             LET d == DocNames[k]
             IN  IF content[d].kind = "throws"
                 THEN /\ Cardinality(ResultsWith("FAIL", LoadLabel(d), NoName)) = 1
                      /\ ResultsLabelled(CheckLabel(d)) = {}
                 ELSE ResultsLabelled(CheckLabel(d)) # {}

\* the versioned files of an agent group, as the version check reads them
GroupFiles(agent) ==
    {q \in {content.tree.entries[k].path :
               k \in {j \in DOMAIN content.tree.entries : content.tree.entries[j].type = "blob"}} :
        /\ startsWith(q, Str_COLLECTIVE_Slash)
        /\ endsWith(q, Str_dot_md)
        /\ matchVersion(q) # <<>>
        /\ split(q, "/")[2] = agent}

Groups ==
    {split(q, "/")[2] :
        q \in {r \in {content.tree.entries[k].path : k \in DOMAIN content.tree.entries} :
                  Len(split(r, "/")) >= 2}}

DistinctVersions(agent) == {matchVersion(q)[1] : q \in GroupFiles(agent)}

VersionsChecked ==
    /\ content.tree.kind = "tree"
    /\ vpc[1] \in {"metatron", "micha", "phoenix", "archive", "ironclad", "return", "done"}

\* C18: once the version check has run, an agent group has a WARN 'Multiple
\* Versions' exactly when its files carry more than one distinct version
\* (each file counted by its first v<major>.<minor> match), never a FAIL, and
\* a group whose versioned files all carry the same version has a PASS
\* 'Version Clean'.
C18_WarnIffDistinctVersions ==
    VersionsChecked =>
       \A agent \in Groups :
          /\ ResultsWith("WARN", "Multiple Versions", agent) # {}
                <=> Cardinality(DistinctVersions(agent)) > 1
          /\ ResultsWith("FAIL", "Multiple Versions", agent) = {}
          /\ Cardinality(DistinctVersions(agent)) = 1
                => ResultsWith("PASS", "Version Clean", agent) # {}


====
